---- MODULE Spec2Model ----
(***************************************************************************)
(* A model of the l1 interpreter's builtin registry (lisp/builtin.go):     *)
(* the value model as the handlers see it (Go dynamic types included),     *)
(* the handlers as operators over an argument vector, and a state machine  *)
(* in which a session calls one builtin after another, feeding literal     *)
(* values or the value returned by the previous call.                      *)
(***************************************************************************)
EXTENDS Integers, Sequences, FiniteSets, TLC

VARIABLES fn, args, slice, res, depth, env, form, out, lexer, state, balanced, stdin

\* a session of builtin calls; a session of top-level forms
sessionVars == <<fn, args, slice, res, depth>>
evalVars == <<env, form, out>>
lexVars == <<lexer, state, balanced>>

vars == <<fn, args, slice, res, depth, env, form, out, lexer, state, balanced, stdin>>

(***************************************************************************)
(* Bounds of the model.                                                    *)
(***************************************************************************)
\* literal numbers range over -MaxNum..MaxNum
MaxNum == 3
\* longest argument vector of an n-ary call built from literals
MaxArgs == 3
\* how many calls in a row may take the previous call's value as argument
MaxChain == 1
\* longest chain of tail calls of the counting lambdas
MaxCount == 1
\* most clauses of a cond form
MaxClauses == 2
\* longest input of the lexer
MaxInput == 3
\* most room the caller's argument slice has beyond its length
MaxSpare == 1
\* longest list handed to sort and sort-by
MaxList == 3
\* the lines written to standard input
MaxLines == 3
\* the largest argument of isqrt
MaxSquare == 17
\* the width of int and uint64 in the model (64 in the source)
IntBits == 5

(***************************************************************************)
(* Values.  The tag is the Go dynamic type of the Sexpr: "nil" and "cons"  *)
(* are both *ConsCell (Nil is the nil *ConsCell), "builtinptr" is *Builtin *)
(* (what the registry holds), "builtin" is Builtin (what Builtin.Eval      *)
(* returns), "lambda" is *lambdaFn.  An atom's name and every printed form *)
(* is a sequence of one-character strings.                                 *)
(***************************************************************************)
Nil == [tag |-> "nil"]

Atom(s) == [tag |-> "atom", s |-> s]

Num(n) == [tag |-> "num", n |-> n]

Cons(a, b) == [tag |-> "cons", car |-> a, cdr |-> b]

BuiltinPtr(name) == [tag |-> "builtinptr", name |-> name]

BuiltinVal(name) == [tag |-> "builtin", name |-> name]

Lambda(id) == [tag |-> "lambda", id |-> id]

True == Atom(<<"t">>)

\* the Go nil interface returned next to an error
NoVal == [tag |-> "none"]

IsConsCell(v) == v.tag \in {"nil", "cons"}

IsNumber(v) == v.tag = "num"

IsAtom(v) == v.tag = "atom"

(***************************************************************************)
(* Results of a handler: (value, nil), (nil, error), a Go panic that       *)
(* aborts the interpreter, os.Exit, or "undef" where the outcome is        *)
(* decided by code outside builtin.go (Num on a string that is no numeral, *)
(* the evaluator running a lambda body).                                   *)
(***************************************************************************)
Ok(v) == [kind |-> "ok", val |-> v, msg |-> <<>>]

baseError(m) == [kind |-> "err", val |-> NoVal, msg |-> <<m>>]

extendError(ctx, r) == [kind |-> "err", val |-> NoVal, msg |-> <<ctx>> \o r.msg]

Panic == [kind |-> "panic", val |-> NoVal, msg |-> <<>>]

Exited == [kind |-> "exit", val |-> NoVal, msg |-> <<>>]

Undef == [kind |-> "undef", val |-> NoVal, msg |-> <<>>]

(***************************************************************************)
(* Lists.                                                                  *)
(***************************************************************************)
RECURSIVE mkListAsConsWithCdr(_, _)
mkListAsConsWithCdr(xs, cdr) ==
    IF Len(xs) = 0 THEN cdr
    ELSE Cons(xs[1], mkListAsConsWithCdr(Tail(xs), cdr))

RECURSIVE IsProperList(_)
IsProperList(v) ==
    IF v.tag = "nil" THEN TRUE
    ELSE IF v.tag = "cons" THEN IsProperList(v.cdr)
    ELSE FALSE

RECURSIVE ListElems(_)
ListElems(v) ==
    IF v.tag = "cons" THEN <<v.car>> \o ListElems(v.cdr) ELSE <<>>

\* consToExprs of package lisp: the elements of a proper list, an error for
\* an improper one
consToExprs(c) ==
    IF IsProperList(c) THEN [kind |-> "ok", exprs |-> ListElems(c), msg |-> <<>>]
    ELSE [kind |-> "err", exprs |-> <<>>, msg |-> <<"not a proper list">>]

(***************************************************************************)
(* Numbers (arbitrary precision) and their decimal form.                   *)
(***************************************************************************)
Abs(n) == IF n < 0 THEN -n ELSE n

Digits == <<"0", "1", "2", "3", "4", "5", "6", "7", "8", "9">>

IsDigit(c) == \E i \in 1..10 : Digits[i] = c

DigitVal(c) == (CHOOSE i \in 1..10 : Digits[i] = c) - 1

RECURSIVE NatString(_)
NatString(n) ==
    IF n < 10 THEN <<Digits[n + 1]>>
    ELSE NatString(n \div 10) \o <<Digits[(n % 10) + 1]>>

NumberString(n) == IF n < 0 THEN <<"-">> \o NatString(-n) ELSE NatString(n)

RECURSIVE ParseNat(_, _)
ParseNat(s, acc) ==
    IF Len(s) = 0 THEN acc
    ELSE ParseNat(Tail(s), acc * 10 + DigitVal(s[1]))

IsNumeral(s) ==
    LET body == IF Len(s) > 0 /\ s[1] \in {"-", "+"} THEN Tail(s) ELSE s
    IN  Len(body) > 0 /\ \A i \in 1..Len(body) : IsDigit(body[i])

\* Num(string) on a numeral
ParseNum(s) ==
    IF s[1] = "-" THEN -ParseNat(Tail(s), 0)
    ELSE IF s[1] = "+" THEN ParseNat(Tail(s), 0)
    ELSE ParseNat(s, 0)

\* Number.Div: quotient truncated toward zero
NumberDiv(a, b) ==
    IF (a < 0) = (b < 0) THEN Abs(a) \div Abs(b) ELSE -(Abs(a) \div Abs(b))

\* Number.Rem: remainder with the sign of the dividend
NumberRem(a, b) == IF a < 0 THEN -(Abs(a) % Abs(b)) ELSE Abs(a) % Abs(b)

NumberLess(a, b) == a < b

NumberLessEqual(a, b) == a <= b

NumberGreater(a, b) == a > b

NumberGreaterEqual(a, b) == a >= b

(***************************************************************************)
(* Printed forms (String): Nil is (), an atom its name, a number its       *)
(* decimal form, a list (a b c), dotted when improper, a builtin           *)
(* <builtin: NAME>.                                                        *)
(***************************************************************************)
BuiltinNameChars(name) ==
    CASE name = "car" -> <<"c", "a", "r">>
      [] name = "cdr" -> <<"c", "d", "r">>
      [] name = "=" -> <<"=">>
      [] name = "/" -> <<"/">>
      [] OTHER -> <<"?">>

BuiltinString(b) ==
    <<"<", "b", "u", "i", "l", "t", "i", "n", ":", " ">>
        \o BuiltinNameChars(b.name) \o <<">">>

RECURSIVE String(_)
RECURSIVE ConsTailString(_)
ConsTailString(v) ==
    IF v.tag = "nil" THEN <<")">>
    ELSE IF v.tag = "cons"
         THEN <<" ">> \o String(v.car) \o ConsTailString(v.cdr)
         ELSE <<" ", ".", " ">> \o String(v) \o <<")">>

String(v) ==
    CASE v.tag = "nil" -> <<"(", ")">>
      [] v.tag = "atom" -> v.s
      [] v.tag = "num" -> NumberString(v.n)
      [] v.tag = "cons" -> <<"(">> \o String(v.car) \o ConsTailString(v.cdr)
      [] v.tag \in {"builtinptr", "builtin"} -> BuiltinString(v)
      [] OTHER -> <<"<", "l", "a", "m", "b", "d", "a", ">">>

(***************************************************************************)
(* Equal.  Builtin.Equal has a value receiver and asserts the argument to  *)
(* the type Builtin: a *Builtin argument fails the assertion.  A call on a *)
(* *Builtin receiver dereferences it, so both builtin tags share the       *)
(* method.                                                                 *)
(***************************************************************************)
BuiltinEqual(b, o) ==
    IF o.tag = "builtin" THEN b.name = o.name ELSE FALSE

RECURSIVE Equal(_, _)
Equal(x, o) ==
    CASE x.tag = "nil" -> o.tag = "nil"
      [] x.tag = "atom" -> o.tag = "atom" /\ x.s = o.s
      [] x.tag = "num" -> o.tag = "num" /\ x.n = o.n
      [] x.tag = "cons" ->
            o.tag = "cons" /\ Equal(x.car, o.car) /\ Equal(x.cdr, o.cdr)
      [] x.tag = "lambda" -> o.tag = "lambda" /\ x.id = o.id
      [] x.tag \in {"builtinptr", "builtin"} -> BuiltinEqual(x, o)
      [] OTHER -> FALSE

\* Builtin.Eval: returns the receiver by value, i.e. a Builtin, also when
\* it is called on a *Builtin
BuiltinEval(b) == Ok(BuiltinVal(b.name))

(***************************************************************************)
(* compareMultipleNums and the handlers of the registry.  A handler takes  *)
(* the evaluated argument vector; cmp is passed by the name of the         *)
(* comparison, called as cmp(num, last).                                   *)
(***************************************************************************)
cmp(op, a, b) ==
    CASE op = "<" -> NumberLess(b, a)
      [] op = "<=" -> NumberLessEqual(b, a)
      [] op = ">" -> NumberGreater(b, a)
      [] op = ">=" -> NumberGreaterEqual(b, a)

\* compareLoop that never moves `last` past the first argument
RECURSIVE compareLoopKeepFirst(_, _, _, _)
compareLoopKeepFirst(op, a, last, i) ==
    IF i > Len(a) THEN Ok(True)
    ELSE IF ~IsNumber(a[i]) THEN baseError("'%s' is not a number")
    ELSE IF ~cmp(op, a[i].n, last) THEN Ok(Nil)
    ELSE compareLoopKeepFirst(op, a, last, i + 1)

RECURSIVE compareLoop(_, _, _, _)
compareLoop(op, a, last, i) ==
    IF i > Len(a) THEN Ok(True)
    ELSE IF ~IsNumber(a[i]) THEN baseError("'%s' is not a number")
    ELSE IF ~cmp(op, a[i].n, last) THEN Ok(Nil)
    ELSE compareLoop(op, a, a[i].n, i + 1)

compareMultipleNums(op, a) ==
    IF Len(a) < 1 THEN baseError("missing argument")
    ELSE IF ~IsNumber(a[1]) THEN baseError("'%s' is not a number")
    ELSE compareLoop(op, a, a[1].n, 2)

\* divLoop dividing with big.Int's Euclidean Div in place of the truncated
\* quotient
RECURSIVE divLoopEuclid(_, _, _)
divLoopEuclid(quot, a, i) ==
    IF i > Len(a) THEN Ok(Num(quot))
    ELSE IF Equal(a[i], Num(0)) THEN baseError("division by zero")
    ELSE IF ~IsNumber(a[i]) THEN baseError("expected number, got '%s'")
    ELSE divLoopEuclid(
            IF a[i].n > 0 THEN quot \div a[i].n ELSE -(quot \div (-a[i].n)),
            a, i + 1)

\* divLoop without the test for a zero divisor: the division panics
RECURSIVE divLoopNoZeroCheck(_, _, _)
divLoopNoZeroCheck(quot, a, i) ==
    IF i > Len(a) THEN Ok(Num(quot))
    ELSE IF ~IsNumber(a[i]) THEN baseError("expected number, got '%s'")
    ELSE IF a[i].n = 0 THEN Panic
    ELSE divLoopNoZeroCheck(NumberDiv(quot, a[i].n), a, i + 1)

RECURSIVE divLoop(_, _, _)
divLoop(quot, a, i) ==
    IF i > Len(a) THEN Ok(Num(quot))
    ELSE IF Equal(a[i], Num(0)) THEN baseError("division by zero")
    ELSE IF ~IsNumber(a[i]) THEN baseError("expected number, got '%s'")
    ELSE divLoop(NumberDiv(quot, a[i].n), a, i + 1)

FnDiv(a) ==
    IF Len(a) < 1 THEN baseError("missing argument")
    ELSE IF ~IsNumber(a[1]) THEN baseError("expected number, got '%s'")
    ELSE divLoop(a[1].n, a, 2)

FnEq(a) ==
    IF Len(a) < 1 THEN baseError("missing argument")
    ELSE IF \E i \in 2..Len(a) : ~Equal(a[1], a[i]) THEN Ok(Nil)
    ELSE Ok(True)

FnRem(a) ==
    IF Len(a) # 2 THEN baseError("rem requires two arguments")
    ELSE IF ~IsNumber(a[1]) THEN baseError("expected number, got '%s'")
    ELSE IF ~IsNumber(a[2]) THEN baseError("expected number, got '%s'")
    ELSE IF Equal(a[2], Num(0)) THEN baseError("division by zero")
    ELSE Ok(Num(NumberRem(a[1].n, a[2].n)))

FnCar(a) ==
    IF Len(a) # 1 THEN baseError("missing argument")
    ELSE IF ~IsConsCell(a[1]) THEN baseError("'%s' is not a list")
    ELSE IF a[1] = Nil THEN Ok(Nil)
    ELSE Ok(a[1].car)

FnCdr(a) ==
    IF Len(a) # 1 THEN baseError("missing argument")
    ELSE IF ~IsConsCell(a[1]) THEN baseError("'%s' is not a list")
    ELSE IF a[1] = Nil THEN Ok(Nil)
    ELSE Ok(a[1].cdr)

\* cons building the pair the wrong way round
FnConsSwapped(a) ==
    IF Len(a) # 2 THEN baseError("missing argument")
    ELSE Ok(Cons(a[2], a[1]))

FnCons(a) ==
    IF Len(a) # 2 THEN baseError("missing argument")
    ELSE Ok(Cons(a[1], a[2]))

\* exit: os.Exit(0), whatever the arguments
FnExit(a) == Exited

\* formsAsSexprList(e): the names of the operators of this model
FormNames == << <<"/">>, <<"=">>, <<"c", "a", "r">>, <<"c", "d", "r">> >>

FnForms(a) ==
    Ok(mkListAsConsWithCdr([i \in 1..Len(FormNames) |-> Atom(FormNames[i])], Nil))

RECURSIVE fuseString(_)
fuseString(cons) ==
    IF cons.tag = "cons" THEN String(cons.car) \o fuseString(cons.cdr) ELSE <<>>

FnFuse(a) ==
    IF Len(a) # 1 THEN baseError("fuse expects a single argument")
    ELSE IF a[1] = Nil THEN Ok(Nil)
    ELSE IF ~IsConsCell(a[1]) THEN baseError("fuse expects a list")
    \* cons.cdr.(*ConsCell) panics at the tail of an improper list
    ELSE IF ~IsProperList(a[1]) THEN Panic
    ELSE LET str == fuseString(a[1])
         IN  IF Len(str) > 0 /\ IsDigit(str[1])
             THEN IF IsNumeral(str) THEN Ok(Num(ParseNum(str))) ELSE Undef
             ELSE Ok(Atom(str))

RECURSIVE listOfChars(_)
listOfChars(s) ==
    IF Len(s) = 0 THEN Nil
    ELSE Cons(Atom(<<s[1]>>), listOfChars(Tail(s)))

RECURSIVE listOfNums(_)
listOfNums(s) ==
    IF Len(s) = 0 THEN Ok(Nil)
    ELSE IF s[1] = "-"
    THEN IF Len(s) < 2 THEN baseError("unexpected end of input")
         ELSE LET lon == listOfNums(SubSeq(s, 3, Len(s)))
              IN  IF lon.kind = "err" THEN lon
                  ELSE Ok(Cons(Num(ParseNum(SubSeq(s, 1, 2))), lon.val))
    ELSE LET lon == listOfNums(SubSeq(s, 2, Len(s)))
         IN  IF lon.kind = "err" THEN lon
             ELSE Ok(Cons(Num(ParseNum(SubSeq(s, 1, 1))), lon.val))

FnSplit(a) ==
    IF Len(a) # 1 THEN baseError("split expects a single argument")
    ELSE IF IsAtom(a[1]) THEN Ok(listOfChars(String(a[1])))
    ELSE IF IsNumber(a[1]) THEN listOfNums(String(a[1]))
    ELSE baseError("split expects an atom or a number")

\* the loops of +, - and *: every argument from the i-th on must be a number
\* and is added to, subtracted from or multiplied into acc
RECURSIVE arithLoop(_, _, _, _)
arithLoop(op, acc, a, i) ==
    IF i > Len(a) THEN Ok(Num(acc))
    ELSE IF ~IsNumber(a[i]) THEN baseError("expected number, got '%s'")
    ELSE arithLoop(op, CASE op = "+" -> acc + a[i].n
                         [] op = "-" -> acc - a[i].n
                         [] op = "*" -> acc * a[i].n, a, i + 1)

FnPlus(a) == IF Len(a) = 0 THEN Ok(Num(0)) ELSE arithLoop("+", 0, a, 1)

\* - answering a single argument with the argument itself
FnMinusKeepSign(a) ==
    IF Len(a) = 0 THEN baseError("missing argument")
    ELSE IF ~IsNumber(a[1]) THEN baseError("expected number, got '%s'")
    ELSE arithLoop("-", a[1].n, a, 2)

FnMinus(a) ==
    IF Len(a) = 0 THEN baseError("missing argument")
    ELSE IF ~IsNumber(a[1]) THEN baseError("expected number, got '%s'")
    ELSE IF Len(a) = 1 THEN Ok(Num(-a[1].n))
    ELSE arithLoop("-", a[1].n, a, 2)

FnTimes(a) == IF Len(a) = 0 THEN Ok(Num(1)) ELSE arithLoop("*", 1, a, 1)

\* the loop of len: count++ for every cell; list.cdr.(*ConsCell) panics when
\* the cdr of a cell is not a cons cell
RECURSIVE lenLoop(_, _)
lenLoop(list, count) ==
    IF list = Nil THEN Ok(Num(count))
    ELSE IF ~IsConsCell(list.cdr) THEN Panic
    ELSE lenLoop(list.cdr, count + 1)

FnLen(a) ==
    IF Len(a) # 1 THEN baseError("len expects a single argument")
    ELSE IF ~IsConsCell(a[1]) THEN baseError("'%s' is not a list")
    ELSE lenLoop(a[1], 0)

(***************************************************************************)
(* The registry: name, FixedArity, NAry and the handler of each entry      *)
(* modelled here.                                                          *)
(***************************************************************************)
BuiltinNames ==
    {"+", "-", "*", "/", "=", "rem", "<", "<=", ">", ">=", "apply", "car", "cdr", "cons",
     "exit", "forms", "fuse", "len", "split"}

FixedArity(name) ==
    CASE name \in {"+", "*", "exit", "forms"} -> 0
      [] name \in {"-", "=", "<", "<=", ">", ">=", "car", "cdr", "fuse", "len", "split"} -> 1
      [] name \in {"/", "rem", "apply", "cons"} -> 2

NAry(name) == name \in {"+", "-", "*", "/", "=", "<", "<=", ">", ">="}

RECURSIVE applyFn(_)
RECURSIVE Fn(_, _)

(***************************************************************************)
(* Environments and the evaluator core.  An environment is a chain of      *)
(* frames, the nearest first; a frame maps names to values.                *)
(***************************************************************************)
L(xs) == mkListAsConsWithCdr(xs, Nil)

Max(a, b) == IF a >= b THEN a ELSE b

EmptyFrame == <<>>

\* child(): an empty frame in front of the parent's chain
mkEnv(parent) == <<EmptyFrame>> \o parent

RECURSIVE lookup(_, _)
lookup(e, n) ==
    IF Len(e) = 0 THEN [ok |-> FALSE, val |-> NoVal]
    ELSE IF n \in DOMAIN e[1] THEN [ok |-> TRUE, val |-> e[1][n]]
    ELSE lookup(Tail(e), n)

\* define(name, value): introduce or overwrite in the nearest frame
define(e, n, v) ==
    [e EXCEPT ![1] = [m \in (DOMAIN e[1]) \cup {n} |->
                         IF m = n THEN v ELSE e[1][m]]]

\* the global frame: t and the builtins the forms of this model name
TopFrame ==
    (<<"t">> :> True)
    @@ (<<"+">> :> BuiltinPtr("+"))
    @@ (<<"-">> :> BuiltinPtr("-"))
    @@ (<<"=">> :> BuiltinPtr("="))
    @@ (<<"/">> :> BuiltinPtr("/"))
    @@ (<<"c", "a", "r">> :> BuiltinPtr("car"))
    @@ (<<"c", "o", "n", "s">> :> BuiltinPtr("cons"))
    @@ (<<"a", "p", "p", "l", "y">> :> BuiltinPtr("apply"))
    @@ (<<"f">> :> Lambda(3))
    @@ (<<"g">> :> Lambda(4))

TopEnv == <<TopFrame>>

\* the body ((cond ((= n 0) 0) (t tailCall))) of a lambda counting n down
countdownBody(tailCall) ==
    L(<< L(<<Atom(<<"c", "o", "n", "d">>),
             L(<<L(<<Atom(<<"=">>), Atom(<<"n">>), Num(0)>>), Num(0)>>),
             L(<<Atom(<<"t">>), tailCall>>)>>) >>)

\* (- n 1)
nMinusOne == L(<<Atom(<<"-">>), Atom(<<"n">>), Num(1)>>)

\* the lambdas of this model: fixed parameter names, rest parameter name
\* (empty when there is none) and body, a proper list of forms
\*   1: (lambda (x y) (cons y x))
\*   2: (lambda (x . xs) x xs)
\*   3: f, (lambda (n) (cond ((= n 0) 0) (t (f (- n 1)))))
\*   4: g, (lambda (n) (cond ((= n 0) 0) (t (apply g (- n 1) ()))))
LambdaDef(id) ==
    CASE id = 1 ->
           [args |-> << <<"x">>, <<"y">> >>, restArg |-> <<>>,
            body |-> L(<< L(<<Atom(<<"c", "o", "n", "s">>),
                              Atom(<<"y">>), Atom(<<"x">>)>>) >>)]
      [] id = 2 ->
           [args |-> << <<"x">> >>, restArg |-> <<"x", "s">>,
            body |-> L(<<Atom(<<"x">>), Atom(<<"x", "s">>)>>)]
      [] id = 3 ->
           [args |-> << <<"n">> >>, restArg |-> <<>>,
            body |-> countdownBody(L(<<Atom(<<"f">>), nMinusOne>>))]
      [] id = 4 ->
           [args |-> << <<"n">> >>, restArg |-> <<>>,
            body |-> countdownBody(L(<<Atom(<<"a", "p", "p", "l", "y">>),
                                       Atom(<<"g">>), nMinusOne, Nil>>))]

\* the environment a lambda captured: the lambdas here are made at top level
LambdaEnv(lambda) == TopEnv

\* the outcome of an evaluation: a handler-style result, the environment
\* left behind, the forms handed to eval in order, and the number of host
\* stack frames in use at the deepest point, this eval's frame included
Ev(r, e, tr, d) ==
    [kind |-> r.kind, val |-> r.val, msg |-> r.msg,
     env |-> e, trace |-> tr, depth |-> d]

\* the outcome of an evaluation made by a call (not by continuing in place)
nonTail(r) == [r EXCEPT !.depth = 1 + @]

\* an outcome r followed, in the same frame, by the outcome rest
after(r, rest) ==
    [rest EXCEPT !.trace = r.trace \o @, !.depth = Max(1 + r.depth, @)]

RECURSIVE bindFixed(_, _, _, _)
bindFixed(e, names, a, i) ==
    IF i > Len(names) THEN e
    ELSE bindFixed(define(e, names[i], a[i]), names, a, i + 1)

\* parameter binding that lets arguments beyond the fixed count pass
setLambdaArgsInEnvLoose(newEnv, lambda, a) ==
    LET d == LambdaDef(lambda.id)
        k == Len(d.args)
    IN  IF Len(a) < k
        THEN [kind |-> "err", val |-> NoVal, msg |-> <<"not enough args">>, env |-> newEnv]
        ELSE LET fixed == bindFixed(newEnv, d.args, a, 1)
             IN  [kind |-> "ok", val |-> Nil, msg |-> <<>>,
                  env |-> IF d.restArg = <<>> THEN fixed
                          ELSE define(fixed, d.restArg,
                                      L(SubSeq(a, k + 1, Len(a))))]

\* parameter binding: exactly the fixed count without a rest name, at least
\* the fixed count with one, the remainder bound to it as a proper list
setLambdaArgsInEnv(newEnv, lambda, a) ==
    LET d == LambdaDef(lambda.id)
        k == Len(d.args)
    IN  IF d.restArg = <<>> /\ Len(a) # k
        THEN [kind |-> "err", val |-> NoVal, msg |-> <<"wrong number of args">>, env |-> newEnv]
        ELSE IF Len(a) < k
        THEN [kind |-> "err", val |-> NoVal, msg |-> <<"not enough args">>, env |-> newEnv]
        ELSE LET fixed == bindFixed(newEnv, d.args, a, 1)
             IN  [kind |-> "ok", val |-> Nil, msg |-> <<>>,
                  env |-> IF d.restArg = <<>> THEN fixed
                          ELSE define(fixed, d.restArg,
                                      L(SubSeq(a, k + 1, Len(a))))]

\* Eval of a self-evaluating value: Nil, a number and a lambda return
\* themselves, a builtin goes through Builtin.Eval
IsSelfEvaluating(v) == v.tag \in {"nil", "num", "lambda", "builtinptr", "builtin"}

Eval(v) ==
    IF v.tag \in {"builtinptr", "builtin"} THEN BuiltinEval(v) ELSE Ok(v)

RECURSIVE eval(_, _)

\* the element of a one-element set; the({F(r) : r \in {v}}) is F of the
\* value of v, with v evaluated once
the(S) == CHOOSE y \in S : TRUE

evalArgsFailed(r) ==
    [kind |-> r.kind, vals |-> <<>>, msg |-> r.msg, env |-> r.env,
     trace |-> r.trace, depth |-> 1 + r.depth]

\* the arguments of a call, evaluated left to right
RECURSIVE evalArgs(_, _)
evalArgs(l, e) ==
    IF l.tag # "cons"
    THEN [kind |-> "ok", vals |-> <<>>, msg |-> <<>>, env |-> e, trace |-> <<>>, depth |-> 0]
    ELSE the({IF r.kind # "ok" THEN evalArgsFailed(r)
              ELSE [evalArgs(l.cdr, r.env) EXCEPT !.vals = <<r.val>> \o @,
                                                  !.trace = r.trace \o @,
                                                  !.depth = Max(1 + r.depth, @)]
              : r \in {eval(l.car, e)}})

\* a sequence of forms: all but the last evaluated for effect, the last one
\* continued in tail position, in the frame of the evaluation under way
RECURSIVE progn(_, _)
progn(body, e) ==
    CASE body.tag # "cons" -> Ev(Ok(Nil), e, <<>>, 1)
      [] body.tag = "cons" /\ body.cdr.tag # "cons" -> eval(body.car, e)
      [] OTHER -> the({IF r.kind # "ok" THEN nonTail(r)
                       ELSE after(r, progn(body.cdr, r.env))
                       : r \in {eval(body.car, e)}})

\* cond answering the first consequent of the chosen clause
RECURSIVE evalCondFirstConsequent(_, _)
evalCondFirstConsequent(clauses, e) ==
    CASE clauses.tag # "cons" -> Ev(Ok(Nil), e, <<>>, 1)
      [] clauses.tag = "cons" /\ clauses.car.tag # "cons" -> Ev(Undef, e, <<>>, 1)
      [] OTHER ->
           the({CASE p.kind # "ok" -> nonTail(p)
                  [] p.kind = "ok" /\ p.val = Nil ->
                       after(p, evalCondFirstConsequent(clauses.cdr, p.env))
                  [] p.kind = "ok" /\ p.val # Nil /\ clauses.car.cdr.tag # "cons" ->
                       after(p, Ev(Undef, p.env, <<>>, 1))
                  [] OTHER -> after(p, eval(clauses.car.cdr.car, p.env))
                : p \in {eval(clauses.car.car, e)}})

\* (cond (p e ...) ...): predicates left to right, the consequents of the
\* first truthy one, the last of them in tail position; Nil when none matches
RECURSIVE evalCond(_, _)
evalCond(clauses, e) ==
    CASE clauses.tag # "cons" -> Ev(Ok(Nil), e, <<>>, 1)
      [] clauses.tag = "cons" /\ clauses.car.tag # "cons" -> Ev(Undef, e, <<>>, 1)
      [] OTHER ->
           the({CASE p.kind # "ok" -> nonTail(p)
                  [] p.kind = "ok" /\ p.val = Nil ->
                       after(p, evalCond(clauses.cdr, p.env))
                  [] p.kind = "ok" /\ p.val # Nil /\ clauses.car.cdr.tag # "cons" ->
                       after(p, Ev(Undef, p.env, <<>>, 1))
                  [] OTHER -> after(p, progn(clauses.car.cdr, p.env))
                : p \in {eval(clauses.car.car, e)}})

\* def keeping an earlier binding of the name
evalDefKeepBinding(a, e) ==
    IF a.tag # "cons" \/ a.car.tag # "atom" \/ a.cdr.tag # "cons" \/ a.cdr.cdr.tag # "nil"
    THEN Ev(Undef, e, <<>>, 1)
    ELSE the({IF r.kind # "ok" THEN nonTail(r)
              ELSE [r EXCEPT !.env = IF lookup(r.env, a.car.s).ok THEN r.env
                                     ELSE define(r.env, a.car.s, r.val),
                             !.depth = 1 + @]
              : r \in {eval(a.cdr.car, e)}})

\* (def n v): evaluate v, install n -> value in the nearest frame, return it
evalDef(a, e) ==
    IF a.tag # "cons" \/ a.car.tag # "atom" \/ a.cdr.tag # "cons" \/ a.cdr.cdr.tag # "nil"
    THEN Ev(Undef, e, <<>>, 1)
    ELSE the({IF r.kind # "ok" THEN nonTail(r)
              ELSE [r EXCEPT !.env = define(r.env, a.car.s, r.val), !.depth = 1 + @]
              : r \in {eval(a.cdr.car, e)}})

\* and evaluating every argument before it answers
RECURSIVE evalAndEager(_, _)
evalAndEager(a, e) ==
    CASE a.tag # "cons" -> Ev(Ok(True), e, <<>>, 1)
      [] OTHER ->
           the({CASE r.kind # "ok" -> nonTail(r)
                  [] r.kind = "ok" /\ a.cdr.tag # "cons" -> nonTail(r)
                  [] OTHER ->
                       the({IF rest.kind = "ok" /\ r.val = Nil
                            THEN [rest EXCEPT !.val = Nil]
                            ELSE rest
                            : rest \in {after(r, evalAndEager(a.cdr, r.env))}})
                : r \in {eval(a.car, e)}})

\* (and x ...): left to right, () at the first () and nothing after it
\* evaluated; the last value when none is (); t without arguments
RECURSIVE evalAnd(_, _)
evalAnd(a, e) ==
    CASE a.tag # "cons" -> Ev(Ok(True), e, <<>>, 1)
      [] OTHER ->
           the({CASE r.kind # "ok" -> nonTail(r)
                  [] r.kind = "ok" /\ (r.val = Nil \/ a.cdr.tag # "cons") -> nonTail(r)
                  [] OTHER -> after(r, evalAnd(a.cdr, r.env))
                : r \in {eval(a.car, e)}})

\* (or x ...): left to right, the first value that is not () and nothing
\* after it evaluated; () when there is none
RECURSIVE evalOr(_, _)
evalOr(a, e) ==
    CASE a.tag # "cons" -> Ev(Ok(Nil), e, <<>>, 1)
      [] OTHER ->
           the({CASE r.kind # "ok" -> nonTail(r)
                  [] r.kind = "ok" /\ r.val # Nil -> nonTail(r)
                  [] OTHER -> after(r, evalOr(a.cdr, r.env))
                : r \in {eval(a.car, e)}})

\* a non-macro lambda applied to evaluated arguments: the parameters bound
\* in a fresh child of the captured environment, the body continued in the
\* frame of the evaluation under way; the caller's environment is e
callLambda(lambda, a, e) ==
    LET b == setLambdaArgsInEnv(mkEnv(LambdaEnv(lambda)), lambda, a)
    IN  IF b.kind = "err" THEN Ev(b, e, <<>>, 1)
        ELSE [progn(LambdaDef(lambda.id).body, b.env) EXCEPT !.env = e]

\* host frames a builtin's handler has in use at its deepest point
RECURSIVE HandlerDepth(_, _)

\* a builtin applied to evaluated arguments: the handler's result, its errors
\* wrapped with the call site
callBuiltin(builtin, a, e) ==
    the({Ev(IF r.kind = "err" THEN extendError("call", r) ELSE r,
            e, <<>>, 1 + HandlerDepth(builtin.name, a))
         : r \in {Fn(builtin.name, a)}})

\* the application of an evaluated head to evaluated arguments
applyCallable(callable, a, e) ==
    CASE callable.tag = "lambda" -> callLambda(callable, a, e)
      [] callable.tag = "builtinptr" -> callBuiltin(callable, a, e)
      [] callable.tag = "builtin" -> Ev(Undef, e, <<>>, 1)
      [] OTHER -> Ev(baseError("%s is not a function"), e, <<>>, 1)

evalArgsError(av) ==
    [kind |-> av.kind, val |-> NoVal, msg |-> av.msg,
     env |-> av.env, trace |-> av.trace, depth |-> av.depth]

evalApplication(x, e) ==
    the({CASE h.kind # "ok" -> nonTail(h)
           [] h.kind = "ok" /\ h.val.tag \notin {"lambda", "builtinptr", "builtin"} ->
                after(h, Ev(baseError("%s is not a function"), h.env, <<>>, 1))
           [] OTHER ->
                the({IF av.kind # "ok" THEN after(h, evalArgsError(av))
                     ELSE after(h, [applyCallable(h.val, av.vals, av.env)
                                        EXCEPT !.trace = av.trace \o @,
                                               !.depth = Max(av.depth, @)])
                     : av \in {evalArgs(x.cdr, h.env)}})
         : h \in {eval(x.car, e)}})

evalAtom(x, e) ==
    LET b == lookup(e, x.s)
    IN  IF b.ok THEN Ev(Ok(b.val), e, <<>>, 1)
        ELSE Ev(baseError("unknown symbol: %s"), e, <<>>, 1)

\* (quote x): x unevaluated
evalQuote(a, e) ==
    IF a.tag = "cons" THEN Ev(Ok(a.car), e, <<>>, 1) ELSE Ev(Undef, e, <<>>, 1)

eval(x, e) ==
    [CASE IsSelfEvaluating(x) -> Ev(Eval(x), e, <<>>, 1)
       [] x.tag = "atom" -> evalAtom(x, e)
       [] x.tag = "cons" /\ x.car = Atom(<<"q", "u", "o", "t", "e">>) -> evalQuote(x.cdr, e)
       [] x.tag = "cons" /\ x.car = Atom(<<"d", "e", "f">>) -> evalDef(x.cdr, e)
       [] x.tag = "cons" /\ x.car = Atom(<<"c", "o", "n", "d">>) -> evalCond(x.cdr, e)
       [] x.tag = "cons" /\ x.car = Atom(<<"a", "n", "d">>) -> evalAnd(x.cdr, e)
       [] x.tag = "cons" /\ x.car = Atom(<<"o", "r">>) -> evalOr(x.cdr, e)
       [] OTHER -> evalApplication(x, e)
     EXCEPT !.trace = <<x>> \o @]

applyBodyFailed(r) ==
    [kind |-> r.kind, val |-> r.val,
     msg |-> IF r.kind = "err" THEN <<"apply">> \o r.msg ELSE r.msg,
     depth |-> r.depth]

\* the body loop of applyFn: every form of the body, the last one too, is
\* handed to eval by a call; ret is the value of the form before
RECURSIVE applyBody(_, _, _)
applyBody(bodyExpr, newEnv, ret) ==
    IF bodyExpr = Nil THEN [kind |-> "ok", val |-> ret, msg |-> <<>>, depth |-> 0]
    ELSE the({CASE r.kind # "ok" -> applyBodyFailed(r)
                [] r.kind = "ok" /\ ~IsConsCell(bodyExpr.cdr) ->
                     [kind |-> "panic", val |-> NoVal, msg |-> <<>>, depth |-> r.depth]
                [] OTHER -> [applyBody(bodyExpr.cdr, r.env, r.val)
                                 EXCEPT !.depth = Max(r.depth, @)]
              : r \in {eval(bodyExpr.car, newEnv)}})

\* the branch of applyFn for user-defined functions
applyLambda(lambda, fnArgs) ==
    LET b == setLambdaArgsInEnv(mkEnv(LambdaEnv(lambda)), lambda, fnArgs)
    IN  IF b.kind = "err"
        THEN [kind |-> "err", val |-> NoVal, msg |-> <<"apply">> \o b.msg, depth |-> 0]
        ELSE applyBody(LambdaDef(lambda.id).body, b.env, Nil)

(***************************************************************************)
(* sort and sort-by.  sort.Slice is the insertion sort of package sort     *)
(* (the one it runs on fewer than 12 elements): for every i from the       *)
(* second element on, the element moves down while less(j, j-1) holds.     *)
(* less answers [less, err]; err is <<>> or holds the error the closure    *)
(* of sort-by stores in sortHadErr.                                        *)
(***************************************************************************)
\* reflect.TypeOf: Nil and a cons cell are both *ConsCell
TypeOf(v) == IF IsConsCell(v) THEN "*ConsCell" ELSE v.tag

\* the bytes of the names of the model, in the order of their codes
ByteOrder == <<"0", "1", "2", "3", "4", "5", "6", "7", "8", "9", "a", "b", "c">>

ByteCode(c) == CHOOSE i \in 1..Len(ByteOrder) : ByteOrder[i] = c

\* s < t of Go strings: the first differing byte decides, a proper prefix
\* is smaller
RECURSIVE StringLess(_, _)
StringLess(s, t) ==
    IF t = <<>> THEN FALSE
    ELSE IF s = <<>> THEN TRUE
    ELSE IF Head(s) # Head(t) THEN ByteCode(Head(s)) < ByteCode(Head(t))
    ELSE StringLess(Tail(s), Tail(t))

\* the closure of sort-by; list(x) is the one-element list of x
sortByLess(f, x, y) ==
    the({IF apply1.kind # "ok" THEN [less |-> FALSE, err |-> <<apply1>>]
         ELSE the({CASE apply2.kind # "ok" -> [less |-> FALSE, err |-> <<apply2>>]
                     [] apply2.kind = "ok" /\ TypeOf(apply1.val) # TypeOf(apply2.val) ->
                          [less |-> FALSE,
                           err |-> <<baseError("apply result %s is not same type as %s")>>]
                     [] apply2.kind = "ok" /\ TypeOf(apply1.val) = TypeOf(apply2.val)
                            /\ IsNumber(apply1.val) ->
                          [less |-> NumberLess(apply1.val.n, apply2.val.n), err |-> <<>>]
                     [] apply2.kind = "ok" /\ TypeOf(apply1.val) = TypeOf(apply2.val)
                            /\ IsAtom(apply1.val) ->
                          [less |-> StringLess(apply1.val.s, apply2.val.s), err |-> <<>>]
                     [] OTHER ->
                          [less |-> FALSE,
                           err |-> <<baseError("'%s' is not a sortable type")>>]
                   : apply2 \in {applyFn(<<f, Cons(y, Nil)>>)}})
         : apply1 \in {applyFn(<<f, Cons(x, Nil)>>)}})

\* the less function handed to sort.Slice: by = <<>> for sort, <<f>> for sort-by
less(by, x, y) ==
    CASE by # <<>> -> sortByLess(by[1], x, y)
      [] by = <<>> /\ IsNumber(x) -> [less |-> NumberLess(x.n, y.n), err |-> <<>>]
      [] OTHER -> [less |-> StringLess(x.s, y.s), err |-> <<>>]

swap(xs, i, j) == [xs EXCEPT ![i] = xs[j], ![j] = xs[i]]

RECURSIVE insertDown(_, _, _, _)
insertDown(by, xs, j, hadErr) ==
    IF j <= 1 THEN [exprs |-> xs, err |-> hadErr]
    ELSE the({IF c.less
              THEN insertDown(by, swap(xs, j, j - 1), j - 1,
                              IF c.err # <<>> THEN c.err ELSE hadErr)
              ELSE [exprs |-> xs, err |-> IF c.err # <<>> THEN c.err ELSE hadErr]
              : c \in {less(by, xs[j], xs[j - 1])}})

RECURSIVE sortSlice(_, _, _, _)
sortSlice(by, xs, i, hadErr) ==
    IF i > Len(xs) THEN [exprs |-> xs, err |-> hadErr]
    ELSE the({sortSlice(by, r.exprs, i + 1, r.err) : r \in {insertDown(by, xs, i, hadErr)}})

\* sort answering the elements in the order it found them
FnSortKeepOrder(a) ==
    IF Len(a) # 1 THEN baseError("sort expects a single argument")
    ELSE IF ~IsConsCell(a[1]) THEN baseError("'%s' is not a list")
    ELSE LET exprs == consToExprs(a[1])
         IN  CASE exprs.kind = "err" -> extendError("sort consToExprs", exprs)
               [] exprs.kind = "ok" /\ Len(exprs.exprs) = 0 -> Ok(Nil)
               [] exprs.kind = "ok" /\ Len(exprs.exprs) > 0
                      /\ (\E i \in 2..Len(exprs.exprs) :
                              TypeOf(exprs.exprs[i]) # TypeOf(exprs.exprs[1])) ->
                    baseError("%s is not same type as %s")
               [] OTHER ->
                    IF ~(IsNumber(exprs.exprs[1]) \/ IsAtom(exprs.exprs[1]))
                    THEN baseError("'%s' is not a sortable type")
                    ELSE Ok(mkListAsConsWithCdr(exprs.exprs, Nil))

FnSort(a) ==
    IF Len(a) # 1 THEN baseError("sort expects a single argument")
    ELSE IF ~IsConsCell(a[1]) THEN baseError("'%s' is not a list")
    ELSE LET exprs == consToExprs(a[1])
         IN  CASE exprs.kind = "err" -> extendError("sort consToExprs", exprs)
               [] exprs.kind = "ok" /\ Len(exprs.exprs) = 0 -> Ok(Nil)
               [] exprs.kind = "ok" /\ Len(exprs.exprs) > 0
                      /\ (\E i \in 2..Len(exprs.exprs) :
                              TypeOf(exprs.exprs[i]) # TypeOf(exprs.exprs[1])) ->
                    baseError("%s is not same type as %s")
               [] OTHER ->
                    IF ~(IsNumber(exprs.exprs[1]) \/ IsAtom(exprs.exprs[1]))
                    THEN baseError("'%s' is not a sortable type")
                    ELSE Ok(mkListAsConsWithCdr(
                                sortSlice(<<>>, exprs.exprs, 2, <<>>).exprs, Nil))

Fn(name, a) ==
    CASE name = "+" -> FnPlus(a)
      [] name = "-" -> FnMinus(a)
      [] name = "*" -> FnTimes(a)
      [] name = "/" -> FnDiv(a)
      [] name = "=" -> FnEq(a)
      [] name = "rem" -> FnRem(a)
      [] name \in {"<", "<=", ">", ">="} -> compareMultipleNums(name, a)
      [] name = "apply" -> applyFn(a)
      [] name = "car" -> FnCar(a)
      [] name = "cdr" -> FnCdr(a)
      [] name = "cons" -> FnCons(a)
      [] name = "exit" -> FnExit(a)
      [] name = "forms" -> FnForms(a)
      [] name = "fuse" -> FnFuse(a)
      [] name = "len" -> FnLen(a)
      [] name = "split" -> FnSplit(a)

\* apply handing over the elements of the final list alone
applyFnDropSingles(a) ==
    IF Len(a) < 2 THEN baseError("apply: not enough arguments")
    ELSE LET l == Len(a)
             asCons == consToExprs(a[l])
             fnArgs == asCons.exprs
             evalCar == a[1]
         IN  CASE ~IsConsCell(a[l]) -> baseError("'%s' is not a list")
               [] IsConsCell(a[l]) /\ asCons.kind = "err" -> extendError("apply", asCons)
               [] IsProperList(a[l]) /\ evalCar.tag = "lambda" ->
                    the({[kind |-> r.kind, val |-> r.val, msg |-> r.msg]
                         : r \in {applyLambda(evalCar, fnArgs)}})
               [] IsProperList(a[l]) /\ evalCar.tag = "builtinptr" ->
                    the({IF biResult.kind = "err"
                         THEN extendError("apply", biResult)
                         ELSE biResult
                         : biResult \in {Fn(evalCar.name, fnArgs)}})
               [] OTHER -> baseError("%s is not a function")

applyFn(a) ==
    IF Len(a) < 2 THEN baseError("apply: not enough arguments")
    ELSE LET l == Len(a)
             singleArgs == SubSeq(a, 2, l - 1)
             asCons == consToExprs(a[l])
             fnArgs == singleArgs \o asCons.exprs
             evalCar == a[1]
         IN  CASE ~IsConsCell(a[l]) -> baseError("'%s' is not a list")
               [] IsConsCell(a[l]) /\ asCons.kind = "err" -> extendError("apply", asCons)
               \* user-defined functions
               [] IsProperList(a[l]) /\ evalCar.tag = "lambda" ->
                    the({[kind |-> r.kind, val |-> r.val, msg |-> r.msg]
                         : r \in {applyLambda(evalCar, fnArgs)}})
               \* builtin, ok := evalCar.(*Builtin)
               [] IsProperList(a[l]) /\ evalCar.tag = "builtinptr" ->
                    the({IF biResult.kind = "err"
                         THEN extendError("apply", biResult)
                         ELSE biResult
                         : biResult \in {Fn(evalCar.name, fnArgs)}})
               [] OTHER -> baseError("%s is not a function")

HandlerDepth(name, a) ==
    IF name # "apply" \/ Len(a) < 2 THEN 1
    ELSE LET l == Len(a)
             asCons == consToExprs(a[l])
             fnArgs == SubSeq(a, 2, l - 1) \o asCons.exprs
         IN  IF ~IsConsCell(a[l]) \/ asCons.kind = "err" THEN 1
             ELSE IF a[1].tag = "lambda" THEN 1 + applyLambda(a[1], fnArgs).depth
             ELSE IF a[1].tag = "builtinptr" THEN 1 + HandlerDepth(a[1].name, fnArgs)
             ELSE 1

(***************************************************************************)
(* The session.  fn is the operation called last ("none" before the first  *)
(* call), args its argument vector, res its result, depth the number of    *)
(* calls that took the previous call's value as an argument.  The first    *)
(* call of a session takes literal arguments, each later call takes the    *)
(* value the previous call returned (a call on literals alone reaches the  *)
(* same state as a first call does).  After a panic or exit the process is *)
(* gone and nothing more is called.                                        *)
(***************************************************************************)
Nums == {Num(n) : n \in -MaxNum..MaxNum}

\* arguments of the numeric handlers: numbers and two non-numbers
NumPool == Nums \cup {Nil, Atom(<<"a">>)}

\* arguments of the other handlers: every kind of value
ValPool ==
    {Nil, True, Atom(<<"a">>), Atom(<<"a", "1">>),
     Num(0), Num(12), Num(-12),
     Cons(Num(1), Nil), Cons(Cons(Num(1), Nil), Nil), Cons(Num(1), Num(2)),
     BuiltinPtr("car"), BuiltinPtr("/"), Lambda(1), Lambda(2)}

\* the literals that may stand next to the previous call's value
ChainPool == {Nil, Num(1), Cons(Cons(Num(1), Nil), Nil), BuiltinPtr("car")}

Running == res.kind \in {"ok", "err"}

FirstCall == fn = "none"

\* the previous call returned a value no literal of the pool stands for
ChainCall(pool) ==
    /\ fn # "none"
    /\ res.kind = "ok"
    /\ res.val \notin pool
    /\ depth < MaxChain

ArgVectors(pool, maxLen) ==
    IF FirstCall THEN UNION {[1..n -> pool] : n \in 0..maxLen}
    ELSE IF ChainCall(pool)
    THEN {a \in {<<res.val>>, <<res.val, res.val>>}
                  \cup {<<res.val, p>> : p \in ChainPool}
                  \cup {<<p, res.val>> : p \in ChainPool} : Len(a) <= maxLen}
    ELSE {}

\* the caller's slice after applyFn returned: fnArgs = append(singleArgs,
\* asCons...) writes into the array of args when the capacity c of args has
\* room for the elements of the final list, and then args[l-1] holds the
\* first of them; what it writes beyond len(args) the caller does not see
appendedInPlace(a, c) ==
    IF Len(a) < 2 \/ ~IsConsCell(a[Len(a)]) \/ consToExprs(a[Len(a)]).kind = "err"
    THEN a
    ELSE LET asCons == consToExprs(a[Len(a)]).exprs
         IN  IF Len(asCons) >= 1 /\ Len(a) - 2 + Len(asCons) <= c - 1
             THEN [a EXCEPT ![Len(a)] = asCons[1]]
             ELSE a

\* the capacities the caller's slice may have: its length and up to
\* MaxSpare more; no handler but apply appends to a part of it
Caps(name, a) ==
    IF name = "apply" THEN Len(a)..(Len(a) + MaxSpare) ELSE {Len(a)}

Call(name, pool, maxLen) ==
    \E a \in ArgVectors(pool, maxLen) : \E c \in Caps(name, a) :
          /\ fn' = name
          /\ args' = a
          /\ slice' = IF name = "apply" THEN appendedInPlace(a, c) ELSE a
          /\ res' = Fn(name, a)
          /\ depth' = IF FirstCall THEN 0 ELSE depth + 1
          /\ UNCHANGED <<evalVars, lexVars, stdin>>

Init ==
    /\ fn = "none"
    /\ args = <<>>
    /\ slice = <<>>
    /\ res = Ok(Nil)
    /\ depth = 0
    /\ env = TopEnv
    /\ form = NoVal
    /\ out = [kind |-> "ok", val |-> Nil, msg |-> <<>>, trace |-> <<>>, depth |-> 0]
    /\ lexer = [input |-> <<>>, start |-> 0, pos |-> 0, width |-> 0, items |-> <<>>]
    /\ state = "idle"
    /\ balanced = <<>>
    /\ stdin = [arrived |-> 0, taken |-> 0, calls |-> 0, closed |-> FALSE]

CallEq ==
    /\ Running
    /\ Call("=", ValPool, MaxArgs)

CallLt ==
    /\ Running
    /\ Call("<", NumPool, MaxArgs)

CallLe ==
    /\ Running
    /\ Call("<=", NumPool, MaxArgs)

CallGt ==
    /\ Running
    /\ Call(">", NumPool, MaxArgs)

CallGe ==
    /\ Running
    /\ Call(">=", NumPool, MaxArgs)

CallPlus ==
    /\ Running
    /\ Call("+", NumPool, MaxArgs)

CallMinus ==
    /\ Running
    /\ Call("-", NumPool, MaxArgs)

\* the numbers of the source have no width; a product of the model is taken
\* of factors up to MaxNum * MaxNum * MaxNum
CallTimes ==
    /\ Running
    /\ IsNumber(res.val) => Abs(res.val.n) <= MaxNum * MaxNum * MaxNum
    /\ Call("*", NumPool, MaxArgs)

CallDiv ==
    /\ Running
    /\ Call("/", NumPool, MaxArgs)

CallRem ==
    /\ Running
    /\ Call("rem", NumPool, FixedArity("rem") + 1)

CallCar ==
    /\ Running
    /\ Call("car", ValPool, FixedArity("car") + 1)

CallCdr ==
    /\ Running
    /\ Call("cdr", ValPool, FixedArity("cdr") + 1)

CallCons ==
    /\ Running
    /\ Call("cons", ValPool, FixedArity("cons") + 1)

CallFuse ==
    /\ Running
    /\ Call("fuse", ValPool, FixedArity("fuse") + 1)

CallLen ==
    /\ Running
    /\ Call("len", ValPool, FixedArity("len") + 1)

CallSplit ==
    /\ Running
    /\ Call("split", ValPool, FixedArity("split") + 1)

CallForms ==
    /\ Running
    /\ Call("forms", ValPool, FixedArity("forms") + 1)

CallExit ==
    /\ Running
    /\ Call("exit", ValPool, FixedArity("exit") + 1)

CallApply ==
    /\ Running
    /\ Call("apply", ValPool, FixedArity("apply") + 1)

\* the Eval method applied to a self-evaluating value
CallEval ==
    /\ Running
    /\ \E a \in ArgVectors(ValPool, 1) :
          /\ Len(a) = 1
          /\ IsSelfEvaluating(a[1])
          /\ fn' = "Eval"
          /\ args' = a
          /\ slice' = a
          /\ res' = Eval(a[1])
          /\ depth' = IF FirstCall THEN 0 ELSE depth + 1
          /\ UNCHANGED <<evalVars, lexVars, stdin>>

Next ==
    \/ CallEq
    \/ CallLt
    \/ CallLe
    \/ CallGt
    \/ CallGe
    \/ CallPlus
    \/ CallMinus
    \/ CallTimes
    \/ CallDiv
    \/ CallRem
    \/ CallCar
    \/ CallCdr
    \/ CallCons
    \/ CallFuse
    \/ CallLen
    \/ CallSplit
    \/ CallForms
    \/ CallExit
    \/ CallApply
    \/ CallEval

Spec == Init /\ [][Next]_vars

(***************************************************************************)
(* A session of top-level forms evaluated one after another against the    *)
(* same environment.  form is the form evaluated last, out its outcome     *)
(* (value or error, the forms handed to eval, the host frames in use at    *)
(* the deepest point), env the environment it left behind.                 *)
(***************************************************************************)
DefNames == {<<"a">>, <<"b">>}

\* the value expressions of the def forms: 1, 2, a, (+ a a), (+ a b), (+ 1 1)
ValueExprs ==
    {Num(1), Num(2), Atom(<<"a">>),
     L(<<Atom(<<"+">>), Atom(<<"a">>), Atom(<<"a">>)>>),
     L(<<Atom(<<"+">>), Atom(<<"a">>), Atom(<<"b">>)>>),
     L(<<Atom(<<"+">>), Num(1), Num(1)>>)}

DefForms == {L(<<Atom(<<"d", "e", "f">>), Atom(n), v>>) : n \in DefNames, v \in ValueExprs}

\* a name alone, and (+ a b)
NameForms ==
    {Atom(n) : n \in DefNames} \cup {L(<<Atom(<<"+">>), Atom(<<"a">>), Atom(<<"b">>)>>)}

\* (/ 1 0), a form whose evaluation fails
FailingForm == L(<<Atom(<<"/">>), Num(1), Num(0)>>)

\* clauses of literals: predicate () or 2, consequents 1 or 1 3
LiteralClauses ==
    {L(<<p>> \o c) : p \in {Nil, Num(2)}, c \in {<<Num(1)>>, <<Num(1), Num(3)>>}}

\* clauses that fail when evaluated: ((/ 1 0) 1) and (t (/ 1 0))
FailingClauses == {L(<<FailingForm, Num(1)>>), L(<<Atom(<<"t">>), FailingForm>>)}

CondForms ==
    {L(<<Atom(<<"c", "o", "n", "d">>)>> \o cs) :
        cs \in UNION {[1..k -> LiteralClauses \cup FailingClauses] : k \in 0..MaxClauses}}

\* (and x ...) and (or x ...) over (), 2, t and (/ 1 0)
LogicForms ==
    {L(<<Atom(op)>> \o xs) :
        op \in {<<"a", "n", "d">>, <<"o", "r">>},
        xs \in UNION {[1..k -> {Nil, Num(2), Atom(<<"t">>), FailingForm}] : k \in 0..MaxArgs}}

\* a call of the lambda with the arguments xs, written out
DirectCall(lambda, xs) == L(<<lambda>> \o xs)

\* the same call through apply: (apply lambda x1 (quote (x2 ...)))
ApplyCall(lambda, xs) ==
    L(<<Atom(<<"a", "p", "p", "l", "y">>), lambda>>
      \o (IF xs = <<>> THEN <<>> ELSE <<Head(xs)>>)
      \o <<L(<<Atom(<<"q", "u", "o", "t", "e">>),
               L(IF xs = <<>> THEN <<>> ELSE Tail(xs))>>)>>)

\* the argument vectors of the calls of (lambda (x y) ...) and (lambda (x . xs) ...)
CallArgs == UNION {[1..k -> {Num(1), Num(2)}] : k \in 0..MaxArgs}

LambdaCallForms ==
    {DirectCall(Lambda(id), xs) : id \in {1, 2}, xs \in CallArgs}
        \cup {ApplyCall(Lambda(id), xs) : id \in {1, 2}, xs \in CallArgs}

\* (f n) and (g n)
CountForms == {L(<<Atom(h), Num(n)>>) : h \in {<<"f">>, <<"g">>}, n \in 0..MaxCount}

\* the numbers bound at top level stay within -MaxNum..MaxNum
InRange(e) == \A n \in DOMAIN e[1] : IsNumber(e[1][n]) => Abs(e[1][n].n) <= MaxNum

\* the session goes on after a def and after a name; a cond form and a
\* counting call leave the environment as it was and end the session
Continues == form = NoVal \/ form \in DefForms \cup NameForms

\* one top-level form evaluated against the session's environment
EvalTopLevel(forms) ==
    \E x \in forms : \E r \in {eval(x, env)} :
        /\ InRange(r.env)
        /\ form' = x
        /\ out' = [kind |-> r.kind, val |-> r.val, msg |-> r.msg,
                   trace |-> r.trace, depth |-> r.depth]
        /\ env' = r.env
        /\ UNCHANGED <<sessionVars, lexVars, stdin>>

EvalDefForm ==
    /\ Continues
    /\ EvalTopLevel(DefForms)

EvalNameForm ==
    /\ Continues
    /\ EvalTopLevel(NameForms)

EvalCondForm ==
    /\ Continues
    /\ EvalTopLevel(CondForms)

EvalCountForm ==
    /\ Continues
    /\ EvalTopLevel(CountForms)

EvalLogicForm ==
    /\ Continues
    /\ EvalTopLevel(LogicForms)

EvalLambdaCallForm ==
    /\ Continues
    /\ EvalTopLevel(LambdaCallForms)

NextEval ==
    \/ EvalDefForm
    \/ EvalNameForm
    \/ EvalCondForm
    \/ EvalCountForm
    \/ EvalLogicForm
    \/ EvalLambdaCallForm

SpecEval == Init /\ [][NextEval]_vars

(***************************************************************************)
(* Calls of the library builtins sort, sort-by, isqrt, randint and         *)
(* readlist, each on argument vectors of its own.                          *)
(***************************************************************************)
\* proper lists of up to MaxList elements, an improper list, and values
\* that are no lists
\* the handler of sort-by: the list comes back with or without an error
FnSortBy(a) ==
    IF Len(a) # 2 THEN baseError("sort-by expects two arguments")
    ELSE IF ~IsConsCell(a[2]) THEN baseError("'%s' is not a list")
    ELSE LET exprs == consToExprs(a[2])
         IN  CASE exprs.kind = "err" -> extendError("sort consToExprs", exprs)
               [] exprs.kind = "ok" /\ Len(exprs.exprs) = 0 -> Ok(Nil)
               [] OTHER ->
                    the({IF r.err = <<>>
                         THEN Ok(mkListAsConsWithCdr(r.exprs, Nil))
                         ELSE [kind |-> "err",
                               val |-> mkListAsConsWithCdr(r.exprs, Nil),
                               msg |-> r.err[1].msg]
                         : r \in {sortSlice(<<a[1]>>, exprs.exprs, 2, <<>>)}})

SortElems == {Num(1), Num(2), Num(-1), Atom(<<"a">>), Atom(<<"b">>), Atom(<<"a", "1">>), Nil}

SortLists == {L(xs) : xs \in UNION {[1..n -> SortElems] : n \in 0..MaxList}}

SortArgs == SortLists \cup {Cons(Num(1), Num(2)), Num(1), Atom(<<"a">>), BuiltinPtr("car")}

\* a first call of a library builtin: the handler's result, the slice of
\* the caller as the handler leaves it.  These handlers do not read standard
\* input; their calls are taken before anything is written to it.
CallLib(name, a, r) ==
    /\ FirstCall
    /\ stdin.arrived = 0
    /\ ~stdin.closed
    /\ fn' = name
    /\ args' = a
    /\ slice' = a
    /\ res' = r
    /\ UNCHANGED <<depth, evalVars, lexVars>>

\* big.Int.Uint64: the low IntBits bits of the magnitude
Uint64(n) == Abs(n) % (2 ^ IntBits)

\* int(u) of a uint64: the same bits read as a signed integer
int(u) == IF u >= 2 ^ (IntBits - 1) THEN u - 2 ^ IntBits ELSE u

\* rand.Intn(k): a panic for k <= 0, any of 0 .. k-1 otherwise
Intn(k) == IF k <= 0 THEN {Panic} ELSE {Ok(Num(r)) : r \in 0..(k - 1)}

\* the results a call of randint may have
FnRandint(a) ==
    IF Len(a) # 1 THEN {baseError("randint expects a single argument")}
    ELSE IF ~IsNumber(a[1]) THEN {baseError("'%s' is not a number")}
    ELSE IF a[1].n = 0 THEN {baseError("randint expects a non-zero argument")}
    ELSE Intn(int(Uint64(a[1].n)))

\* numbers around 1, around the largest int and around the largest uint64
RandintArgs ==
    {Num(n) : n \in {-1, 0, 1, 2, 3,
                     2 ^ (IntBits - 1) - 1, 2 ^ (IntBits - 1), 2 ^ (IntBits - 1) + 1,
                     2 ^ IntBits - 1, 2 ^ IntBits, 2 ^ IntBits + 2}}
        \cup {Nil, Atom(<<"a">>)}

CallRandint ==
    /\ \E a \in {<<>>} \cup {<<x>> : x \in RandintArgs} :
           \E r \in FnRandint(a) : CallLib("randint", a, r)
    /\ UNCHANGED stdin

\* elements whose key under car or - is a number, and some that have none
SortByElems == {Num(1), Num(2), L(<<Num(1)>>), L(<<Num(2)>>), Atom(<<"a">>)}

SortByLists == {L(xs) : xs \in UNION {[1..n -> SortByElems] : n \in 0..MaxList}}

\* two key functions and a value that is no function
SortByKeys == {BuiltinPtr("car"), BuiltinPtr("-"), Num(1)}

CallSortBy ==
    /\ \E a \in {<<>>} \cup {<<f, l>> : f \in SortByKeys,
                                         l \in SortByLists \cup {Num(1), Cons(Num(1), Num(2))}} :
           CallLib("sort-by", a, FnSortBy(a))
    /\ UNCHANGED stdin

\* the text of the k-th line written to standard input: the numeral of k
lineText(k) == NumberString(k)

\* the forms of a line of input
lexAndParse(line) ==
    IF IsNumeral(line) THEN [kind |-> "ok", exprs |-> <<Num(ParseNum(line))>>, msg |-> <<>>]
    ELSE [kind |-> "err", exprs |-> <<>>, msg |-> <<"parse">>]

\* ReadLine: a new buffered reader takes what a read of standard input hands
\* over, one line or more of those that have arrived; the first line is the
\* result and the reader is dropped with the rest.  With nothing left of a
\* closed input the result is io.EOF.
ReadLine ==
    IF stdin.arrived = stdin.taken
    THEN {[kind |-> "err", line |-> <<>>, msg |-> <<"EOF">>, taken |-> stdin.taken]}
    ELSE {[kind |-> "ok", line |-> lineText(stdin.taken + 1), msg |-> <<>>,
           taken |-> stdin.taken + c] : c \in 1..(stdin.arrived - stdin.taken)}

\* the handler of readlist on the outcome of its call of ReadLine
FnReadlist(line) ==
    IF line.kind = "err" THEN extendError("reading readlist input", line)
    ELSE LET parsed == lexAndParse(line.line)
         IN  IF parsed.kind = "err" THEN extendError("parsing readlist input", parsed)
             ELSE Ok(mkListAsConsWithCdr(parsed.exprs, Nil))

\* a line is written to standard input
LineArrives ==
    /\ fn \in {"none", "readlist"}
    /\ ~stdin.closed
    /\ stdin.arrived < MaxLines
    /\ stdin' = [stdin EXCEPT !.arrived = @ + 1]
    /\ UNCHANGED <<sessionVars, evalVars, lexVars>>

\* the writer closes standard input
CloseStdin ==
    /\ fn \in {"none", "readlist"}
    /\ ~stdin.closed
    /\ stdin' = [stdin EXCEPT !.closed = TRUE]
    /\ UNCHANGED <<sessionVars, evalVars, lexVars>>

\* a call of readlist in a session of readlist calls; it waits while no line
\* has arrived and the input is open.  The session has at most one call more
\* than there are lines.
CallReadlist ==
    /\ fn \in {"none", "readlist"}
    /\ Running
    /\ stdin.calls <= MaxLines
    /\ stdin.arrived > stdin.taken \/ stdin.closed
    /\ \E line \in ReadLine :
           /\ fn' = "readlist"
           /\ args' = <<>>
           /\ slice' = <<>>
           /\ res' = FnReadlist(line)
           /\ stdin' = [stdin EXCEPT !.taken = line.taken, !.calls = @ + 1]
    /\ UNCHANGED <<depth, evalVars, lexVars>>

\* nat.bitLen: the number of bits of x
RECURSIVE bitLen(_)
bitLen(x) == IF x = 0 THEN 0 ELSE 1 + bitLen(x \div 2)

\* the loop of nat.sqrt: z = (z + x / z) / 2 until it stops getting smaller
RECURSIVE sqrtLoop(_, _)
sqrtLoop(x, z1) ==
    the({IF z2 >= z1 THEN z1 ELSE sqrtLoop(x, z2) : z2 \in {((x \div z1) + z1) \div 2}})

\* big.Int.Sqrt: a panic for x < 0, x itself for x <= 1, the loop from a
\* power of two that is not below the root otherwise
Sqrt(x) ==
    IF x < 0 THEN Panic
    ELSE IF x <= 1 THEN Ok(x)
    ELSE Ok(sqrtLoop(x, 2 ^ ((bitLen(x) + 1) \div 2)))

\* the handler of isqrt; Num reads the numeral that sqrt.String() writes
FnIsqrt(a) ==
    IF Len(a) # 1 THEN baseError("isqrt expects a single argument")
    ELSE IF ~IsNumber(a[1]) THEN baseError("isqrt expects a number")
    ELSE the({IF sqrt.kind = "panic" THEN Panic
              ELSE Ok(Num(ParseNum(NumberString(sqrt.val))))
              : sqrt \in {Sqrt(a[1].n)}})

IsqrtArgs == {Num(n) : n \in -2..MaxSquare} \cup {Nil, Atom(<<"a">>)}

\* n is a copy of the argument and nat.sqrt writes its result to a fresh
\* slice, so the vector of the caller stays as it is
CallIsqrt ==
    /\ \E a \in {<<>>} \cup {<<x>> : x \in IsqrtArgs} : CallLib("isqrt", a, FnIsqrt(a))
    /\ UNCHANGED stdin

CallSort ==
    /\ \E a \in {<<>>} \cup {<<x>> : x \in SortArgs} : CallLib("sort", a, FnSort(a))
    /\ UNCHANGED stdin

NextLib ==
    \/ CallSort
    \/ CallRandint
    \/ CallSortBy
    \/ CallIsqrt
    \/ LineArrives
    \/ CloseStdin
    \/ CallReadlist

SpecLib == Init /\ [][NextLib]_vars

(***************************************************************************)
(* The lexer (package main, lex.go): lexItems runs the state functions     *)
(* lexStart, lexInt and lexAtom over a lexutil.Lexer, whose fields are     *)
(* the input, the start of the pending token, the position, the width of   *)
(* the last rune read and the items emitted.  Positions are the 0-based    *)
(* byte offsets of the source; every rune of the model is one byte wide.   *)
(***************************************************************************)
EOF == "EOF"

\* the runes of the model's inputs; "backtick" stands for the rune U+0060
Chars == {"a", "1", "-", ";", "\n", "(", ")", "'", "backtick", "~", "@"}

Inputs == UNION {[1..n -> Chars] : n \in 0..MaxInput}

LexerNext(l) ==
    IF l.pos >= Len(l.input)
    THEN [l |-> [l EXCEPT !.width = 0], r |-> EOF]
    ELSE [l |-> [l EXCEPT !.width = 1, !.pos = l.pos + 1], r |-> l.input[l.pos + 1]]

Backup(l) == [l EXCEPT !.pos = l.pos - l.width]

Peek(l) == [l |-> Backup(LexerNext(l).l), r |-> LexerNext(l).r]

Ignore(l) == [l EXCEPT !.start = l.pos]

Emit(l, t) ==
    [l EXCEPT !.items = Append(@, [Typ |-> t, Val |-> SubSeq(l.input, l.start + 1, l.pos)]),
              !.start = l.pos]

Accept(l, valid) ==
    IF LexerNext(l).r \in valid THEN LexerNext(l).l ELSE Backup(LexerNext(l).l)

RECURSIVE AcceptRun(_, _)
AcceptRun(l, valid) ==
    IF LexerNext(l).r \in valid
    THEN AcceptRun(LexerNext(l).l, valid)
    ELSE Backup(LexerNext(l).l)

\* the item goes to the channel; start and pos stay where they are
Errorf(l, r) ==
    [l EXCEPT !.items = Append(@, [Typ |-> "ERR",
                                   Val |-> <<"unexpected character ", r, " in input">>])]

isDigit(r) == r \in {"0", "1", "2", "3", "4", "5", "6", "7", "8", "9"}

isSpace(r) == r \in {" ", "\t", "\n", "\r"}

RECURSIVE ignoreComment(_)
ignoreComment(l) ==
    IF LexerNext(l).r \in {"\n", EOF}
    THEN LexerNext(l).l
    ELSE ignoreComment(LexerNext(l).l)

validAtomChars ==
    {"0", "1", "2", "3", "4", "5", "6", "7", "8", "9",
     "a", "b", "c", "d", "e", "f", "g", "h", "i", "j", "k", "l", "m",
     "n", "o", "p", "q", "r", "s", "t", "u", "v", "w", "x", "y", "z",
     "A", "B", "C", "D", "E", "F", "G", "H", "I", "J", "K", "L", "M",
     "N", "O", "P", "Q", "R", "S", "T", "U", "V", "W", "X", "Y", "Z",
     "+", "*", "/", "-", "_", "!", "=", "<", ">", "?", "[", "]", "{", "}",
     "&", "$", "^"}

isAtomChar(r) == r \in validAtomChars

\* a state function returns the lexer as it leaves it and the next state
RECURSIVE lexStart(_)
lexStart(l) ==
    LET n == LexerNext(l)
        r == n.r
    IN  IF isSpace(r) THEN lexStart(Ignore(n.l))
        ELSE IF r = ";" THEN lexStart(ignoreComment(n.l))
        ELSE IF r = EOF THEN [l |-> n.l, next |-> "nil"]
        ELSE IF isDigit(r) \/ r = "-" \/ r = "+"
             THEN [l |-> Backup(n.l), next |-> "lexInt"]
        ELSE IF r = "(" THEN lexStart(Emit(n.l, "LP"))
        ELSE IF r = ")" THEN lexStart(Emit(n.l, "RP"))
        ELSE IF isAtomChar(r) THEN [l |-> n.l, next |-> "lexAtom"]
        ELSE lexStart(Errorf(n.l, r))

lexAtom(l) == [l |-> Emit(AcceptRun(l, validAtomChars), "ATOM"), next |-> "lexStart"]

\* lexInt that leaves the sign where it is and hands it back to lexStart
lexIntLeaveSign(l) ==
    LET nextRune == Peek(l).r
    IN  IF isDigit(nextRune)
        THEN [l |-> Emit(AcceptRun(Peek(l).l,
                                   {"0", "1", "2", "3", "4", "5", "6", "7", "8", "9"}),
                         "NUM"),
              next |-> "lexStart"]
        ELSE [l |-> Peek(l).l, next |-> "lexStart"]

lexInt(l) ==
    LET signed == Accept(l, {"-", "+"})
        nextRune == Peek(signed).r
    IN  IF isDigit(nextRune)
        THEN [l |-> Emit(AcceptRun(Peek(signed).l,
                                   {"0", "1", "2", "3", "4", "5", "6", "7", "8", "9"}),
                         "NUM"),
              next |-> "lexStart"]
        ELSE [l |-> Peek(signed).l, next |-> "lexAtom"]

Lex(s) == [input |-> s, start |-> 0, pos |-> 0, width |-> 0, items |-> <<>>]

StateFn(name, l) ==
    CASE name = "lexStart" -> lexStart(l)
      [] name = "lexInt" -> lexInt(l)
      [] name = "lexAtom" -> lexAtom(l)

\* the loop of the lexer's goroutine: state functions until one returns nil
RECURSIVE run(_, _)
run(name, l) ==
    IF name = "nil" THEN l
    ELSE run(StateFn(name, l).next, StateFn(name, l).l)

lexItems(s) == run("lexStart", Lex(s)).items

RECURSIVE level(_, _)
level(tokens, i) ==
    IF i = 0 THEN 0
    ELSE level(tokens, i - 1)
         + (CASE tokens[i].Typ = "LP" -> 1
              [] tokens[i].Typ = "RP" -> -1
              [] OTHER -> 0)

isBalanced(tokens) == level(tokens, Len(tokens)) = 0

(***************************************************************************)
(* A run of the lexer: lexItems is called on an input, the state functions *)
(* run one after the other until one returns nil, and isBalanced is asked  *)
(* about the items; balanced holds its answer once it was asked.           *)
(***************************************************************************)
CallLexItems ==
    /\ state = "idle"
    /\ \E s \in Inputs : lexer' = Lex(s)
    /\ state' = "lexStart"
    /\ UNCHANGED <<balanced, sessionVars, evalVars, stdin>>

RunStateFn(name) ==
    /\ state = name
    /\ lexer' = StateFn(name, lexer).l
    /\ state' = StateFn(name, lexer).next
    /\ UNCHANGED <<balanced, sessionVars, evalVars, stdin>>

RunLexStart ==
    /\ state = "lexStart"
    /\ RunStateFn("lexStart")

RunLexInt ==
    /\ state = "lexInt"
    /\ RunStateFn("lexInt")

RunLexAtom ==
    /\ state = "lexAtom"
    /\ RunStateFn("lexAtom")

CallIsBalanced ==
    /\ state = "nil"
    /\ balanced = <<>>
    /\ balanced' = <<isBalanced(lexer.items)>>
    /\ UNCHANGED <<lexer, state, sessionVars, evalVars, stdin>>

NextLex ==
    \/ CallLexItems
    \/ RunLexStart
    \/ RunLexInt
    \/ RunLexAtom
    \/ CallIsBalanced

SpecLex == Init /\ [][NextLex]_vars

(***************************************************************************)
(* Properties.                                                             *)
(***************************************************************************)
CmpNames == {"<", "<=", ">", ">="}

AllNumbers(a) == \A i \in 1..Len(a) : IsNumber(a[i])

\* the relation each comparison is named after
Rel(op, x, y) ==
    CASE op = "<" -> x < y
      [] op = "<=" -> x <= y
      [] op = ">" -> x > y
      [] op = ">=" -> x >= y

\* C1: (= x x) returns t for every value x, a builtin included.
C1_EqReflexive ==
    (fn = "=" /\ Len(args) = 2 /\ args[1] = args[2]) => res = Ok(True)

\* C2: (= x y) and (= y x) return the same result for all values x and y,
\* also when one is a registry entry and the other the result of evaluating
\* a builtin.
C2_EqSymmetric ==
    (fn = "=" /\ Len(args) = 2) => res = FnEq(<<args[2], args[1]>>)

\* C3: evaluating a self-evaluating value returns a value equal to it, and
\* the result of evaluating a builtin is still callable as that builtin
\* through apply.
C3_EvalSelf ==
    fn = "Eval" =>
        /\ res.kind = "ok"
        /\ Equal(args[1], res.val)
        /\ args[1].tag = "builtinptr" =>
              \A l \in {Nil, Cons(Cons(Num(1), Nil), Nil)} :
                  applyFn(<<res.val, l>>) = applyFn(<<args[1], l>>)

\* C4: (car (cons a b)) is a and (cdr (cons a b)) is b for all values a and
\* b, b a list or not; cons with any other number of arguments is an error.
C4_CarCdrCons ==
    fn = "cons" =>
        IF Len(args) = 2
        THEN /\ res.kind = "ok"
             /\ FnCar(<<res.val>>) = Ok(args[1])
             /\ FnCdr(<<res.val>>) = Ok(args[2])
        ELSE res.kind = "err"

C4_Witness ==
    /\ fn = "cons"
    /\ Len(args) = 2
    /\ args[1].tag = "cons"
    /\ args[2].tag = "num"
    /\ res.kind = "ok"

\* C5: (fuse (split x)) equals x for every number x, positive, zero or
\* negative, and for every atom x.
C5_FuseSplit ==
    (fn = "split" /\ Len(args) = 1 /\ (IsNumber(args[1]) \/ IsAtom(args[1]))) =>
        /\ res.kind = "ok"
        /\ FnFuse(<<res.val>>).kind = "ok"
        /\ Equal(args[1], FnFuse(<<res.val>>).val)

\* C6: a call of a builtin with fewer than FixedArity arguments, or with
\* more than FixedArity arguments when NAry is false, returns an error.
C6_ArityChecked ==
    (/\ fn \in BuiltinNames
     /\ \/ Len(args) < FixedArity(fn)
        \/ ~NAry(fn) /\ Len(args) > FixedArity(fn)) => res.kind = "err"

\* C7: a comparison < <= > >= returns an error whenever any one of its
\* arguments is not a number, whatever its position.
C7_CompareTypeError ==
    (fn \in CmpNames /\ ~AllNumbers(args)) => res.kind = "err"

\* C8: on numbers x1..xn (n >= 1) a comparison returns t exactly when every
\* adjacent pair stands in its relation and () otherwise, and t for a
\* single argument; = returns t exactly when all arguments are equal.
C8_CompareChain ==
    /\ (fn \in CmpNames /\ Len(args) >= 1 /\ AllNumbers(args)) =>
          res = Ok(IF \A i \in 1..(Len(args) - 1) :
                           Rel(fn, args[i].n, args[i + 1].n)
                   THEN True ELSE Nil)
    /\ (fn = "=" /\ Len(args) >= 1 /\ AllNumbers(args)) =>
          res = Ok(IF \A i, j \in 1..Len(args) : args[i].n = args[j].n
                   THEN True ELSE Nil)

C8_Witness ==
    /\ fn = "<"
    /\ Len(args) = 3
    /\ AllNumbers(args)
    /\ args[1].n < args[2].n
    /\ args[3].n <= args[2].n
    /\ args[1].n < args[3].n
    /\ res = Ok(Nil)

\* C9: for numbers a and b with b /= 0, a = (a / b) * b + (rem a b), the
\* quotient truncated toward zero and the remainder carrying the sign of a.
C9_DivRem ==
    (fn = "/" /\ Len(args) = 2 /\ AllNumbers(args) /\ args[2].n # 0) =>
        LET a == args[1].n
            b == args[2].n
            r == FnRem(args)
        IN  /\ res.kind = "ok"
            /\ r.kind = "ok"
            /\ a = res.val.n * b + r.val.n
            /\ Abs(r.val.n) < Abs(b)
            /\ r.val.n = 0 \/ (r.val.n < 0) = (a < 0)

C9_Witness ==
    /\ fn = "/"
    /\ Len(args) = 2
    /\ AllNumbers(args)
    /\ args[1].n < 0
    /\ args[2].n > 1
    /\ FnRem(args) = Ok(Num(-1))
    /\ res.kind = "ok"

\* C10: (/ a d1 ... dn) returns an error whenever some divisor d_i is 0,
\* whatever its position, and (rem a 0) returns an error; neither panics
\* nor returns a value.
C10_DivByZero ==
    /\ (fn = "/" /\ \E i \in 2..Len(args) : args[i] = Num(0)) =>
          res.kind = "err"
    /\ (fn = "rem" /\ Len(args) = 2 /\ args[2] = Num(0)) => res.kind = "err"

C10_Witness ==
    /\ fn = "/"
    /\ Len(args) = 3
    /\ AllNumbers(args)
    /\ args[2].n # 0
    /\ args[3].n = 0
    /\ res = baseError("division by zero")

\* C11: len returns the number of elements of every proper list, 0 for the
\* empty list, and answers every other single argument, a non-list and an
\* improper list alike, with an error value
C11_LenProper ==
    (fn = "len" /\ Len(args) = 1) =>
        IF IsProperList(args[1])
        THEN res = Ok(Num(Len(ListElems(args[1]))))
        ELSE res.kind = "err"

\* the outcome r of a handler is that of the evaluation d: the same value,
\* or a failure of the same kind
SameOutcome(r, d) == IF d.kind = "ok" THEN r = Ok(d.val) ELSE r.kind = d.kind

C13_TailCallsConstantStack ==
    \A h \in {<<"f">>, <<"g">>} : \A n \in 1..MaxCount :
        (form = L(<<Atom(h), Num(n)>>) /\ out.kind = "ok") =>
            out.depth <= eval(L(<<Atom(h), Num(0)>>), TopEnv).depth

(***************************************************************************)
(* C14: a line comment is invisible to the token stream.  When a run of    *)
(* the lexer has ended, the items are those of the input in which every    *)
(* comment, from ';' up to and with the next newline or up to EOF, is      *)
(* replaced by a newline, and no item that is a token holds a ';'.         *)
(***************************************************************************)
RECURSIVE withoutComments(_, _)
withoutComments(s, inComment) ==
    IF s = <<>> THEN (IF inComment THEN <<"\n">> ELSE <<>>)
    ELSE IF inComment
         THEN (IF Head(s) = "\n" THEN <<"\n">> \o withoutComments(Tail(s), FALSE)
               ELSE withoutComments(Tail(s), TRUE))
         ELSE (IF Head(s) = ";" THEN withoutComments(Tail(s), TRUE)
               ELSE <<Head(s)>> \o withoutComments(Tail(s), FALSE))

C14_CommentsInvisible ==
    state = "nil" =>
        /\ lexer.items = lexItems(withoutComments(lexer.input, FALSE))
        /\ \A i \in 1..Len(lexer.items) :
               lexer.items[i].Typ # "ERR" =>
                   \A k \in 1..Len(lexer.items[i].Val) : lexer.items[i].Val[k] # ";"

(***************************************************************************)
(* C15: the number attempt.  When lexInt runs at a sign or digit, an       *)
(* optional sign followed by at least one digit is emitted as one NUM      *)
(* item made of the sign and the maximal run of digits; otherwise nothing  *)
(* is emitted and lexAtom runs next, and the ATOM item it emits is the     *)
(* maximal run of atom characters that begins with the sign.               *)
(***************************************************************************)
\* the end of the longest run of runes of valid in s after offset p
RECURSIVE runEnd(_, _, _)
runEnd(s, p, valid) ==
    IF p < Len(s) /\ s[p + 1] \in valid THEN runEnd(s, p + 1, valid) ELSE p

signEnd(s, p) == IF p < Len(s) /\ s[p + 1] \in {"-", "+"} THEN p + 1 ELSE p

digitsEnd(s, p) == runEnd(s, signEnd(s, p), {"0", "1", "2", "3", "4", "5", "6", "7", "8", "9"})

C15_NumberAttempt ==
    [][/\ state = "lexInt" =>
              IF digitsEnd(lexer.input, lexer.pos) > signEnd(lexer.input, lexer.pos)
              THEN lexer'.items =
                       Append(lexer.items,
                              [Typ |-> "NUM",
                               Val |-> SubSeq(lexer.input, lexer.pos + 1,
                                              digitsEnd(lexer.input, lexer.pos))])
              ELSE state' = "lexAtom" /\ lexer'.items = lexer.items
       /\ (state = "lexAtom" /\ lexer.input[lexer.pos] \in {"-", "+"}) =>
              lexer'.items =
                  Append(lexer.items,
                         [Typ |-> "ATOM",
                          Val |-> SubSeq(lexer.input, lexer.pos,
                                         runEnd(lexer.input, lexer.pos - 1,
                                                validAtomChars))])]_vars

(***************************************************************************)
(* C16: isBalanced(tokens) is true exactly when the parentheses of the     *)
(* token list are balanced: no prefix of the list holds more RP than LP,   *)
(* and the whole list holds as many RP as LP.                              *)
(***************************************************************************)
count(tokens, n, typ) == Cardinality({i \in 1..n : tokens[i].Typ = typ})

properlyNested(tokens) ==
    /\ \A n \in 1..Len(tokens) : count(tokens, n, "RP") <= count(tokens, n, "LP")
    /\ count(tokens, Len(tokens), "RP") = count(tokens, Len(tokens), "LP")

C16_BalancedExactly ==
    balanced # <<>> => (balanced[1] <=> properlyNested(lexer.items))

(***************************************************************************)
(* C17: each reader macro has a token of its own: ' gives QUOTE, backtick  *)
(* gives SYNTAX_QUOTE, ~ gives UNQUOTE and ~@ gives one SPLICE_UNQUOTE;    *)
(* none of these runes produces an error item.  Stated for the inputs      *)
(* made of reader macros only, where the items are decided by the claim.   *)
(***************************************************************************)
RECURSIVE readerMacroTokens(_)
readerMacroTokens(s) ==
    IF s = <<>> THEN <<>>
    ELSE IF Head(s) = "'" THEN <<"QUOTE">> \o readerMacroTokens(Tail(s))
    ELSE IF Head(s) = "backtick" THEN <<"SYNTAX_QUOTE">> \o readerMacroTokens(Tail(s))
    ELSE IF Len(s) >= 2 /\ s[2] = "@"
         THEN <<"SPLICE_UNQUOTE">> \o readerMacroTokens(Tail(Tail(s)))
    ELSE <<"UNQUOTE">> \o readerMacroTokens(Tail(s))

\* inputs in which every rune is a reader macro or the @ of a ~@
onlyReaderMacros(s) ==
    \A i \in 1..Len(s) :
        \/ s[i] \in {"'", "backtick", "~"}
        \/ s[i] = "@" /\ i > 1 /\ s[i - 1] = "~"

C17_ReaderMacroTokens ==
    (state = "nil" /\ onlyReaderMacros(lexer.input)) =>
        /\ [i \in 1..Len(lexer.items) |-> lexer.items[i].Typ]
               = readerMacroTokens(lexer.input)
        /\ \A i \in 1..Len(lexer.items) : lexer.items[i].Typ # "ERR"

(***************************************************************************)
(* C18: the arithmetic folds.  After a call of +, * or - whose arguments   *)
(* are all numbers the result is the sum (0 for no argument), the product  *)
(* (1 for no argument), the negation of a single argument of -, or the     *)
(* first argument of - less every other one; putting the value that + has *)
(* without arguments among the arguments of +, or the one that the product *)
(* has without arguments among the product's, leaves the result as it is;  *)
(* an argument that is not a number gives an error.                        *)
(***************************************************************************)
RECURSIVE sumOf(_)
sumOf(a) == IF a = <<>> THEN 0 ELSE Head(a).n + sumOf(Tail(a))

RECURSIVE productOf(_)
productOf(a) == IF a = <<>> THEN 1 ELSE Head(a).n * productOf(Tail(a))

allNumbers(a) == \A i \in 1..Len(a) : a[i].tag = "num"

withExtra(a, i, v) == SubSeq(a, 1, i) \o <<v>> \o SubSeq(a, i + 1, Len(a))

C18_ArithmeticFolds ==
    /\ (fn \in {"+", "*", "-"} /\ ~allNumbers(args)) => res.kind = "err"
    /\ (fn = "+" /\ allNumbers(args)) => res = Ok(Num(sumOf(args)))
    /\ (fn = "*" /\ allNumbers(args)) => res = Ok(Num(productOf(args)))
    /\ (fn = "-" /\ allNumbers(args) /\ Len(args) = 1) => res = Ok(Num(0 - args[1].n))
    /\ (fn = "-" /\ allNumbers(args) /\ Len(args) > 1) =>
           res = Ok(Num(args[1].n - sumOf(Tail(args))))
    /\ fn \in {"+", "*"} =>
           \A i \in 0..Len(args) : Fn(fn, withExtra(args, i, Fn(fn, <<>>).val)) = res

C18_Witness ==
    /\ fn = "-"
    /\ args = <<Num(2)>>
    /\ res = Ok(Num(-2))

(***************************************************************************)
(* C19: cond evaluates the predicates of its clauses left to right and     *)
(* returns the value of the last consequent of the first clause whose      *)
(* predicate is truthy; nothing of a later clause is evaluated; without a  *)
(* truthy predicate, as in (cond), the value is ().  The trace of the      *)
(* evaluation is the cond form, the predicates up to the chosen clause     *)
(* and that clause's consequents, in this order.  Stated for the forms in  *)
(* which the predicates up to the chosen clause and its consequents are    *)
(* literals, whatever the later clauses hold.                              *)
(***************************************************************************)
RECURSIVE elems(_)
elems(list) == IF list.tag # "cons" THEN <<>> ELSE <<list.car>> \o elems(list.cdr)

\* the first clause whose predicate is not the literal (), 0 when there is none
RECURSIVE firstNonNil(_, _)
firstNonNil(cs, i) ==
    IF i > Len(cs) THEN 0
    ELSE IF cs[i].car # Nil THEN i
    ELSE firstNonNil(cs, i + 1)

C19_CondFirstTruthy ==
    form \in CondForms =>
        LET cs == elems(form.cdr)
            k == firstNonNil(cs, 1)
        IN  IF k = 0
            THEN /\ out.kind = "ok"
                 /\ out.val = Nil
                 /\ out.trace = <<form>> \o [i \in 1..Len(cs) |-> cs[i].car]
            ELSE (\A x \in {cs[k].car} \cup {elems(cs[k].cdr)[j] :
                                               j \in 1..Len(elems(cs[k].cdr))} :
                      IsNumber(x)) =>
                     /\ out.kind = "ok"
                     /\ out.val = elems(cs[k].cdr)[Len(elems(cs[k].cdr))]
                     /\ out.trace = <<form>> \o [i \in 1..k |-> cs[i].car]
                                             \o elems(cs[k].cdr)

\* (cond (() 1) (2 1 3)) gives 3
C19_Witness ==
    /\ form = L(<<Atom(<<"c", "o", "n", "d">>), L(<<Nil, Num(1)>>),
                  L(<<Num(2), Num(1), Num(3)>>)>>)
    /\ out.kind = "ok"
    /\ out.val = Num(3)

(***************************************************************************)
(* C20: def returns the value it binds, the value expression is evaluated  *)
(* with the names defined by earlier forms, the binding replaces an        *)
(* earlier one of the same name and leaves the other names alone; a form   *)
(* that is not a def, or a def that fails, leaves every binding as it      *)
(* was; a name evaluated as a form gives the value bound to it.            *)
(***************************************************************************)
\* the value of a value expression of the def forms under the bindings of e
operandIn(x, e) == IF IsNumber(x) THEN x ELSE lookup(e, x.s).val

valueIn(v, e) ==
    IF v.tag = "cons"
    THEN Num(operandIn(v.cdr.car, e).n + operandIn(v.cdr.cdr.car, e).n)
    ELSE operandIn(v, e)

C20_DefBinds ==
    [][/\ (form' \in DefForms /\ out'.kind = "ok") =>
              /\ out'.val = valueIn(form'.cdr.cdr.car, env)
              /\ lookup(env', form'.cdr.car.s) = [ok |-> TRUE, val |-> out'.val]
              /\ \A n \in DefNames \ {form'.cdr.car.s} : lookup(env', n) = lookup(env, n)
       /\ (form' \notin DefForms \/ out'.kind # "ok") =>
              \A n \in DefNames : lookup(env', n) = lookup(env, n)
       /\ \A n \in DefNames :
              (form' = Atom(n) /\ lookup(env, n).ok) =>
                  (out'.kind = "ok" /\ out'.val = lookup(env, n).val)]_vars

\* a was 1 and (def a (+ a a)) made it 2
C20_Witness ==
    /\ form = L(<<Atom(<<"d", "e", "f">>), Atom(<<"a">>),
                  L(<<Atom(<<"+">>), Atom(<<"a">>), Atom(<<"a">>)>>)>>)
    /\ out.kind = "ok"
    /\ out.val = Num(2)
    /\ lookup(env, <<"a">>) = [ok |-> TRUE, val |-> Num(2)]

(***************************************************************************)
(* C21: and, or short-circuit.  (and x1 .. xn) evaluates its arguments     *)
(* left to right up to the first one that is (), whose value () it         *)
(* returns, and otherwise returns the last value, t when there is no       *)
(* argument; (or x1 .. xn) evaluates up to the first truthy argument and   *)
(* returns its value, () when there is none.  The trace of the evaluation  *)
(* is the form and the arguments up to the stopping point: nothing after   *)
(* it is evaluated, so no error of a later argument shows.  Stated for     *)
(* the forms whose arguments up to the stopping point are () , 2 or t.     *)
(***************************************************************************)
\* the first argument that is in stops, 0 when there is none
RECURSIVE firstIn(_, _, _)
firstIn(xs, i, stops) ==
    IF i > Len(xs) THEN 0
    ELSE IF xs[i] \in stops THEN i
    ELSE firstIn(xs, i + 1, stops)

\* where the evaluation of the arguments xs ends; 0 when an argument before
\* that point is not a literal
stopOf(xs, stops) ==
    LET s == IF firstIn(xs, 1, stops) = 0 THEN Len(xs) ELSE firstIn(xs, 1, stops)
        f == firstIn(xs, 1, {FailingForm})
    IN  IF f # 0 /\ f <= s THEN 0 ELSE s

C22_ParameterBinding ==
    \A id \in {1, 2} : \A xs \in CallArgs :
        form \in {DirectCall(Lambda(id), xs), ApplyCall(Lambda(id), xs)} =>
            LET k == Len(LambdaDef(id).args)
            IN  IF LambdaDef(id).restArg = <<>>
                THEN /\ out.kind = "ok" <=> Len(xs) = k
                     /\ out.kind # "ok" => out.kind = "err"
                     /\ out.kind = "ok" => out.val = Cons(xs[2], xs[1])
                ELSE /\ out.kind = "ok" <=> Len(xs) >= k
                     /\ out.kind # "ok" => out.kind = "err"
                     /\ out.kind = "ok" => out.val = L(SubSeq(xs, k + 1, Len(xs)))

\* (apply (lambda (x . xs) x xs) 1 (quote (2 1))) is (2 1)
C22_Witness ==
    /\ form = ApplyCall(Lambda(2), <<Num(1), Num(2), Num(1)>>)
    /\ out.kind = "ok"
    /\ out.val = L(<<Num(2), Num(1)>>)

(***************************************************************************)
(* C23: sort.  For a proper list of numbers alone or of atoms alone the    *)
(* result is a proper list with the same elements, each as often as in the *)
(* argument, in non-decreasing order (numbers by value, atoms by name),    *)
(* and the argument is as it was; for () the result is (); for a list      *)
(* that mixes the two or holds another kind of value, and for a value      *)
(* that is no list, the result is an error.                                *)
(***************************************************************************)
occurrences(xs, v) == Cardinality({i \in 1..Len(xs) : xs[i] = v})

nonDecreasing(xs) ==
    \A i \in 1..(Len(xs) - 1) :
        IF IsNumber(xs[i]) THEN xs[i].n <= xs[i + 1].n
        ELSE ~StringLess(xs[i + 1].s, xs[i].s)

C23_SortHomogeneous ==
    (fn = "sort" /\ Len(args) = 1) =>
        LET xs == ListElems(args[1])
        IN  CASE ~IsProperList(args[1]) -> res.kind = "err"
              [] args[1] = Nil -> res = Ok(Nil)
              [] args[1] # Nil /\ IsProperList(args[1])
                     /\ ((\A i \in 1..Len(xs) : IsNumber(xs[i]))
                            \/ (\A i \in 1..Len(xs) : IsAtom(xs[i]))) ->
                   /\ res.kind = "ok"
                   /\ IsProperList(res.val)
                   /\ Len(ListElems(res.val)) = Len(xs)
                   /\ \A i \in 1..Len(xs) :
                          occurrences(ListElems(res.val), xs[i]) = occurrences(xs, xs[i])
                   /\ nonDecreasing(ListElems(res.val))
                   /\ slice = args
              [] OTHER -> res.kind = "err"

\* (sort (quote (b a1 a))) is (a a1 b)
C23_Witness ==
    /\ fn = "sort"
    /\ args = <<L(<<Atom(<<"b">>), Atom(<<"a", "1">>), Atom(<<"a">>)>>)>>
    /\ res = Ok(L(<<Atom(<<"a">>), Atom(<<"a", "1">>), Atom(<<"b">>)>>))

(***************************************************************************)
(* C24: fuse.  For a list the result is made of the printed forms of its   *)
(* elements put together: the number they denote when they begin with a    *)
(* digit, the atom of that name otherwise; (fuse ()) is (); an argument     *)
(* that is no list, a dotted pair included, gives an error.                *)
(***************************************************************************)
RECURSIVE printedForms(_)
printedForms(xs) == IF xs = <<>> THEN <<>> ELSE String(Head(xs)) \o printedForms(Tail(xs))

C24_Fuse ==
    (fn = "fuse" /\ Len(args) = 1) =>
        CASE args[1] = Nil -> res = Ok(Nil)
          [] ~IsProperList(args[1]) -> res.kind = "err"
          [] OTHER ->
               LET str == printedForms(ListElems(args[1]))
               IN  IF IsDigit(str[1])
                   THEN IsNumeral(str) => res = Ok(Num(ParseNum(str)))
                   ELSE res = Ok(Atom(str))

(***************************************************************************)
(* C25: (randint n) returns a number r with 0 <= r <= n - 1 for every      *)
(* number n >= 1, also for n at or above half the range of uint64, and an  *)
(* error for n = 0; it never aborts the interpreter.                       *)
(***************************************************************************)
C25_RandintRange ==
    (fn = "randint" /\ Len(args) = 1 /\ IsNumber(args[1])) =>
        /\ res.kind # "panic"
        /\ args[1].n = 0 => res.kind = "err"
        /\ args[1].n >= 1 => /\ res.kind = "ok"
                             /\ IsNumber(res.val)
                             /\ 0 <= res.val.n
                             /\ res.val.n <= args[1].n - 1

\* a value that cannot be applied
isNoFunction(f) == f.tag \notin {"builtinptr", "builtin", "lambda"}

(***************************************************************************)
(* C26: (sort-by f l) reports a key function that cannot be applied for    *)
(* every list l, the empty list and the lists of one element included, and *)
(* an error of sort-by comes without a result value.                       *)
(***************************************************************************)
C26_SortByReports ==
    (fn = "sort-by" /\ Len(args) = 2) =>
        /\ (isNoFunction(args[1]) /\ IsProperList(args[2])) => res.kind = "err"
        /\ res.kind = "err" => res.val = NoVal

(***************************************************************************)
(* C27: successive calls of readlist take standard input line by line: the *)
(* k-th call returns the forms of the k-th line, and no line that was      *)
(* taken from standard input is lost to the calls that follow.             *)
(***************************************************************************)
C27_ReadlistLineByLine ==
    (fn = "readlist" /\ res.kind = "ok") =>
        /\ res.val = L(<<Num(stdin.calls)>>)
        /\ stdin.taken = stdin.calls

\* the runes lexItems has still to read
remaining(l) == Len(l.input) - l.pos

\* the state functions in the order that a step without a rune read follows:
\* lexAtom hands over to lexStart, lexStart to lexInt
rank(name) ==
    CASE name = "lexAtom" -> 3
      [] name = "lexStart" -> 2
      [] name = "lexInt" -> 1
      [] OTHER -> 0

\* a measure of the work left to the goroutine of the lexer
variant(name, l) == 3 * remaining(l) + rank(name)

(***************************************************************************)
(* C28: lexing terminates on every finite input: every call of a state     *)
(* function lowers a natural number made of the runes still to read and    *)
(* the rank of the state function, so the state functions come to return   *)
(* nil, whether the input ends inside a comment, right after a sign, or    *)
(* holds runes outside the alphabet; lexItems then has no more items than  *)
(* the input has runes.                                                    *)
(***************************************************************************)
C28_LexingTerminates ==
    [][/\ state \in {"lexStart", "lexInt", "lexAtom"} =>
              /\ variant(state', lexer') < variant(state, lexer)
              /\ variant(state', lexer') >= 0
       /\ state' = "nil" => Len(lexer'.items) <= Len(lexer'.input)]_vars

\* a sign at the end of a line, then a rune outside the alphabet and a
\* comment without a final newline
C28_Witness ==
    /\ state = "nil"
    /\ lexer.input \in {<<"-", "@", ";">>, <<"@", ";", "-">>, <<";", "@", "-">>}

(***************************************************************************)
(* C29: for a number n >= 0, (isqrt n) is the r with r*r <= n < (r+1)*(r+1) *)
(* and the argument is left as it was; for a negative n and for a value    *)
(* that is no number the result is an error.                               *)
(***************************************************************************)
C29_Isqrt ==
    (fn = "isqrt" /\ Len(args) = 1) =>
        IF IsNumber(args[1]) /\ args[1].n >= 0
        THEN /\ res.kind = "ok"
             /\ IsNumber(res.val)
             /\ res.val.n * res.val.n <= args[1].n
             /\ args[1].n < (res.val.n + 1) * (res.val.n + 1)
             /\ slice = args
        ELSE res.kind = "err"

(***************************************************************************)
(* C30: applyFn leaves the argument vector it is given as it was: after    *)
(* (apply f a1 ... ak l) every element of the caller's slice, the final    *)
(* list l included, is the value it was before the call, whatever the      *)
(* length of l.                                                            *)
(***************************************************************************)
C30_ApplyKeepsArgs == fn = "apply" => slice = args
====
